---- MODULE Spec2Model ----
(***************************************************************************)
(* Pragati-backend: capability-adaptive schema provisioning               *)
(* (src/config/schema.js), the bounding-box village query of the API      *)
(* (server.js, api/index.js) and the village boundary import script       *)
(* (scripts/import-villages.js), over one PostgreSQL store.                *)
(***************************************************************************)
EXTENDS Integers, Sequences, FiniteSets, TLC

(***************************************************************************)
(* Bounds of the model.                                                    *)
(***************************************************************************)
MaxRuns == 2
MaxFaults == 1
MaxProcs == 2

(***************************************************************************)
(* SQL NULL / JavaScript null, and the JavaScript value of                 *)
(* this.postgisAvailable, which is undefined until enableExtensions        *)
(* assigns it.                                                             *)
(***************************************************************************)
Null == 0 - 1

Truthy(flag) == flag = "true"

(***************************************************************************)
(* enableExtensions: the four extensions, in the order of the array.       *)
(***************************************************************************)
Extensions == <<"pg_trgm", "btree_gist", "postgis", "postgis_topology">>

ExtensionNames == {Extensions[i] : i \in 1..Len(Extensions)}

\* A variant in which the native spatial type is a required extension.
ExtensionRequiredSpatial(name) == name = "postgis"

ExtensionRequired(name) == FALSE

ExtStmt(name) == "ext:" \o name

\* One pass of the for loop of enableExtensions, from index i.  r carries
\* the store's extensions, the local postgisAvailable, the statements
\* issued and those that failed; av is what the store can install, down the
\* statements hit by a transient store failure.
RECURSIVE ExtLoop(_, _, _, _)
ExtLoop(i, r, av, down) ==
  IF i > Len(Extensions) \/ r.thrown THEN r
  ELSE LET name == Extensions[i]
           ok == name \in av /\ ExtStmt(name) \notin down
       IN ExtLoop(i + 1,
            [exts |-> IF ok THEN r.exts \cup {name} ELSE r.exts,
             flag |-> IF ok /\ name = "postgis" THEN "true" ELSE r.flag,
             issued |-> Append(r.issued, ExtStmt(name)),
             failed |-> IF ok THEN r.failed ELSE r.failed \cup {ExtStmt(name)},
             thrown |-> ~ok /\ ExtensionRequired(name)],
            av, down)

EnableExtensionsResult(exts0, av, down) ==
  ExtLoop(1, [exts |-> exts0, flag |-> "false", issued |-> <<>>,
              failed |-> {}, thrown |-> FALSE], av, down)

(***************************************************************************)
(* createTables: the five CREATE TABLE IF NOT EXISTS statements.           *)
(***************************************************************************)
TableNames == {"villages", "claimants", "micro_assets", "documents", "users"}

VillagesCommonCols ==
  {"id", "gid", "name", "state", "district", "block", "properties",
   "created_at", "updated_at"}

createVillagesTable(flag) ==
  IF Truthy(flag)
  THEN [table |-> "villages", refs |-> {},
        cols |-> VillagesCommonCols \cup {"boundary", "centroid"}]
  ELSE [table |-> "villages", refs |-> {},
        cols |-> VillagesCommonCols
                   \cup {"boundary_geojson", "centroid_lat", "centroid_lon"}]

ClaimantsCommonCols ==
  {"id", "claimant_uuid", "name", "claimant_type", "tribal_group",
   "village_id", "area_ha", "status", "properties", "created_at",
   "updated_at"}

createClaimantsTable(flag) ==
  [table |-> "claimants", refs |-> {"villages"},
   cols |-> ClaimantsCommonCols
              \cup (IF Truthy(flag) THEN {"geom"} ELSE {"geometry_geojson"})]

MicroAssetsCommonCols ==
  {"id", "asset_uuid", "name", "asset_type", "village_id", "district",
   "area_ha", "status", "properties", "created_at", "updated_at"}

createMicroAssetsTable(flag) ==
  [table |-> "micro_assets", refs |-> {"villages"},
   cols |-> MicroAssetsCommonCols
              \cup (IF Truthy(flag) THEN {"geom"} ELSE {"geometry_geojson"})]

createDocumentsTable ==
  [table |-> "documents", refs |-> {"claimants"},
   cols |-> {"id", "doc_uuid", "claimant_id", "filename", "file_path",
             "raw_text", "structured", "ocr_confidence", "uploaded_by",
             "uploaded_at"}]

createUsersTable ==
  [table |-> "users", refs |-> {},
   cols |-> {"id", "username", "display_name", "email", "role",
             "password_hash", "is_active", "created_at", "last_login"}]

TableStatements(flag) ==
  <<createVillagesTable(flag), createClaimantsTable(flag),
    createMicroAssetsTable(flag), createDocumentsTable, createUsersTable>>

TableStmt(name) == "table:" \o name

NoTables == [t \in TableNames |-> {}]

TableExists(tabs, t) == tabs[t] # {}

\* CREATE TABLE IF NOT EXISTS: an existing table is left as it is.
ExecCreateTable(tabs, stmt) ==
  IF TableExists(tabs, stmt.table) THEN [ok |-> TRUE, tables |-> tabs]
  ELSE IF \A t \in stmt.refs : TableExists(tabs, t)
       THEN [ok |-> TRUE, tables |-> [tabs EXCEPT ![stmt.table] = stmt.cols]]
       ELSE [ok |-> FALSE, tables |-> tabs]

\* The for loop of createTables: the first failing statement throws.
RECURSIVE TableLoop(_, _, _, _)
TableLoop(i, r, stmts, down) ==
  IF i > Len(stmts) \/ r.thrown THEN r
  ELSE LET s == stmts[i]
           x == ExecCreateTable(r.tables, s)
           ok == x.ok /\ TableStmt(s.table) \notin down
       IN TableLoop(i + 1,
            [tables |-> IF ok THEN x.tables ELSE r.tables,
             issued |-> Append(r.issued, TableStmt(s.table)),
             failed |-> IF ok THEN r.failed
                        ELSE r.failed \cup {TableStmt(s.table)},
             thrown |-> ~ok],
            stmts, down)

CreateTablesResult(tabs, flag, down) ==
  TableLoop(1, [tables |-> tabs, issued |-> <<>>, failed |-> {},
                thrown |-> FALSE], TableStatements(flag), down)

(***************************************************************************)
(* createIndexes: CREATE INDEX IF NOT EXISTS statements; every failure is   *)
(* caught.                                                                 *)
(***************************************************************************)
Idx(name, table, cols) ==
  [name |-> name, table |-> table, cols |-> cols, ext |-> "none"]

NativeIndexes ==
  <<Idx("idx_villages_boundary_gist", "villages", {"boundary"}),
    Idx("idx_villages_centroid", "villages", {"centroid"}),
    Idx("idx_claimants_geom_gist", "claimants", {"geom"}),
    Idx("idx_micro_assets_geom_gist", "micro_assets", {"geom"})>>

FallbackIndexes ==
  <<Idx("idx_villages_centroid_lat", "villages", {"centroid_lat"}),
    Idx("idx_villages_centroid_lon", "villages", {"centroid_lon"}),
    Idx("idx_villages_boundary_geojson", "villages", {"boundary_geojson"}),
    Idx("idx_claimants_geometry_geojson", "claimants", {"geometry_geojson"}),
    Idx("idx_micro_assets_geometry_geojson", "micro_assets",
        {"geometry_geojson"})>>

CommonIndexes ==
  <<Idx("idx_villages_district", "villages", {"district"}),
    Idx("idx_claimants_village_id", "claimants", {"village_id"}),
    Idx("idx_claimants_type", "claimants", {"claimant_type"}),
    Idx("idx_claimants_status", "claimants", {"status"}),
    Idx("idx_micro_assets_village_id", "micro_assets", {"village_id"}),
    Idx("idx_micro_assets_type", "micro_assets", {"asset_type"}),
    Idx("idx_documents_claimant_id", "documents", {"claimant_id"}),
    Idx("idx_documents_filename", "documents", {"filename"})>>

TrgmIndex ==
  [name |-> "idx_villages_name_trgm", table |-> "villages",
   cols |-> {"name"}, ext |-> "pg_trgm"]

PlainNameIndex == Idx("idx_villages_name", "villages", {"name"})

IndexStmt(name) == "index:" \o name

\* CREATE INDEX IF NOT EXISTS: needs the columns (and the operator class of
\* the extension); an index of that name is left as it is.
ExecCreateIndex(idxs, tabs, exts, stmt) ==
  IF ~(stmt.cols \subseteq tabs[stmt.table]) THEN [ok |-> FALSE, indexes |-> idxs]
  ELSE IF stmt.ext # "none" /\ stmt.ext \notin exts
       THEN [ok |-> FALSE, indexes |-> idxs]
       ELSE [ok |-> TRUE, indexes |-> idxs \cup {stmt.name}]

\* A variant of the loop that stops at the first failing statement.
RECURSIVE IndexLoopAbort(_, _, _, _, _, _)
IndexLoopAbort(i, r, stmts, tabs, exts, down) ==
  IF i > Len(stmts) \/ r.thrown THEN r
  ELSE LET s == stmts[i]
           x == ExecCreateIndex(r.indexes, tabs, exts, s)
           ok == x.ok /\ IndexStmt(s.name) \notin down
       IN IndexLoopAbort(i + 1,
            [indexes |-> IF ok THEN x.indexes ELSE r.indexes,
             issued |-> Append(r.issued, IndexStmt(s.name)),
             failed |-> IF ok THEN r.failed
                        ELSE r.failed \cup {IndexStmt(s.name)},
             thrown |-> ~ok],
            stmts, tabs, exts, down)

\* The for loop of createIndexes: a failing statement is a warning.
RECURSIVE IndexLoop(_, _, _, _, _, _)
IndexLoop(i, r, stmts, tabs, exts, down) ==
  IF i > Len(stmts) THEN r
  ELSE LET s == stmts[i]
           x == ExecCreateIndex(r.indexes, tabs, exts, s)
           ok == x.ok /\ IndexStmt(s.name) \notin down
       IN IndexLoop(i + 1,
            [indexes |-> IF ok THEN x.indexes ELSE r.indexes,
             issued |-> Append(r.issued, IndexStmt(s.name)),
             failed |-> IF ok THEN r.failed
                        ELSE r.failed \cup {IndexStmt(s.name)},
             thrown |-> FALSE],
            stmts, tabs, exts, down)

CreateIndexesResult(idxs, tabs, exts, flag, down) ==
  LET modeIdx == IF Truthy(flag) THEN NativeIndexes ELSE FallbackIndexes
      x == ExecCreateIndex(idxs, tabs, exts, TrgmIndex)
      trgmOk == x.ok /\ IndexStmt(TrgmIndex.name) \notin down
      list == (modeIdx \o CommonIndexes)
                \o (IF trgmOk THEN <<>> ELSE <<PlainNameIndex>>)
  IN IndexLoop(1,
       [indexes |-> IF trgmOk THEN x.indexes ELSE idxs,
        issued |-> <<IndexStmt(TrgmIndex.name)>>,
        failed |-> IF trgmOk THEN {} ELSE {IndexStmt(TrgmIndex.name)},
        thrown |-> FALSE],
       list, tabs, exts, down)

(***************************************************************************)
(* createTriggers: CREATE OR REPLACE FUNCTION and DROP TRIGGER IF EXISTS;  *)
(* CREATE TRIGGER statements; the first failure throws.                    *)
(***************************************************************************)
Fn(name) == [kind |-> "function", name |-> name, table |-> "none", fn |-> name]

Trg(name, table, fn) ==
  [kind |-> "trigger", name |-> name, table |-> table, fn |-> fn]

TriggerStatements(flag) ==
  (IF Truthy(flag)
   THEN <<Fn("update_village_centroid"),
          Trg("trg_update_village_centroid", "villages",
              "update_village_centroid")>>
   ELSE <<Fn("update_village_centroid_simple"),
          Trg("trg_update_village_centroid_simple", "villages",
              "update_village_centroid_simple")>>)
  \o <<Fn("update_updated_at_column"),
       Trg("trg_update_claimants_updated_at", "claimants",
           "update_updated_at_column"),
       Trg("trg_update_micro_assets_updated_at", "micro_assets",
           "update_updated_at_column")>>

TriggerStmt(s) == s.kind \o ":" \o s.name

\* A variant that issues CREATE TRIGGER without the preceding DROP TRIGGER
\* IF EXISTS: the statement fails when the trigger is already there.
ExecCreateTriggerNoDrop(trigs, fns, tabs, stmt) ==
  IF stmt.kind = "function"
  THEN [ok |-> TRUE, triggers |-> trigs, functions |-> fns \cup {stmt.name}]
  ELSE IF TableExists(tabs, stmt.table) /\ stmt.fn \in fns
            /\ stmt.name \notin trigs
       THEN [ok |-> TRUE, triggers |-> trigs \cup {stmt.name},
             functions |-> fns]
       ELSE [ok |-> FALSE, triggers |-> trigs, functions |-> fns]

\* CREATE OR REPLACE FUNCTION replaces; DROP TRIGGER IF EXISTS; CREATE
\* TRIGGER removes the trigger of that name, then creates it.
ExecTriggerStatement(trigs, fns, tabs, stmt) ==
  IF stmt.kind = "function"
  THEN [ok |-> TRUE, triggers |-> trigs, functions |-> fns \cup {stmt.name}]
  ELSE IF TableExists(tabs, stmt.table) /\ stmt.fn \in fns
       THEN [ok |-> TRUE, triggers |-> (trigs \ {stmt.name}) \cup {stmt.name},
             functions |-> fns]
       ELSE [ok |-> FALSE, triggers |-> trigs, functions |-> fns]

RECURSIVE TriggerLoop(_, _, _, _, _)
TriggerLoop(i, r, stmts, tabs, down) ==
  IF i > Len(stmts) \/ r.thrown THEN r
  ELSE LET s == stmts[i]
           x == ExecTriggerStatement(r.triggers, r.functions, tabs, s)
           ok == x.ok /\ TriggerStmt(s) \notin down
       IN TriggerLoop(i + 1,
            [triggers |-> IF ok THEN x.triggers ELSE r.triggers,
             functions |-> IF ok THEN x.functions ELSE r.functions,
             issued |-> Append(r.issued, TriggerStmt(s)),
             failed |-> IF ok THEN r.failed ELSE r.failed \cup {TriggerStmt(s)},
             thrown |-> ~ok],
            stmts, tabs, down)

CreateTriggersResult(trigs, fns, tabs, flag, down) ==
  TriggerLoop(1, [triggers |-> trigs, functions |-> fns, issued |-> <<>>,
                  failed |-> {}, thrown |-> FALSE],
              TriggerStatements(flag), tabs, down)

\* Every statement initializeSchema can issue: the points at which a
\* transient store failure (a timeout) can hit.
AllStatements ==
  {ExtStmt(e) : e \in ExtensionNames}
    \cup {TableStmt(t) : t \in TableNames}
    \cup {IndexStmt(s.name) : s \in
            {NativeIndexes[i] : i \in 1..Len(NativeIndexes)}
              \cup {FallbackIndexes[i] : i \in 1..Len(FallbackIndexes)}
              \cup {CommonIndexes[i] : i \in 1..Len(CommonIndexes)}
              \cup {TrgmIndex, PlainNameIndex}}
    \cup {TriggerStmt(s) : s \in
            {TriggerStatements("true")[i] : i \in 1..5}
              \cup {TriggerStatements("false")[i] : i \in 1..5}}

(***************************************************************************)
(* Three-valued SQL logic, as the WHERE clauses evaluate it: a comparison   *)
(* with NULL is unknown ("U"), and a row is selected only when the clause   *)
(* is true ("T").                                                          *)
(***************************************************************************)
SqlAnd(a, b) ==
  IF a = "F" \/ b = "F" THEN "F" ELSE IF a = "T" /\ b = "T" THEN "T" ELSE "U"

SqlOr(a, b) ==
  IF a = "T" \/ b = "T" THEN "T" ELSE IF a = "F" /\ b = "F" THEN "F" ELSE "U"

SqlEq(a, b) ==
  IF a = Null \/ b = Null THEN "U" ELSE IF a = b THEN "T" ELSE "F"

SqlLe(a, b) ==
  IF a = Null \/ b = Null THEN "U" ELSE IF a <= b THEN "T" ELSE "F"

SqlBetween(x, lo, hi) == SqlAnd(SqlLe(lo, x), SqlLe(x, hi))

SqlIsNull(x) == IF x = Null THEN "T" ELSE "F"

(***************************************************************************)
(* GET /api/villages.  A bbox is <<minLon, minLat, maxLon, maxLat>>; the   *)
(* handler passes [minLat, maxLat, minLon, maxLon, limit] as $1..$5.       *)
(* Coordinates are in units of 0.0001 degree; names are ranks in the       *)
(* collation order of the store.                                           *)
(***************************************************************************)
\* A variant that passes the bbox in its own order, longitudes first.
BboxParamsLonFirst(bbox, limit) == <<bbox[1], bbox[3], bbox[2], bbox[4], limit>>

BboxParams(bbox, limit) == <<bbox[2], bbox[4], bbox[1], bbox[3], limit>>

\* A variant of the WHERE clause without the two OR ... IS NULL branches.
BoxWhereStrict(row, params) ==
  SqlAnd(SqlBetween(row.centroid_lat, params[1], params[2]),
         SqlBetween(row.centroid_lon, params[3], params[4]))

BoxWhere(row, params) ==
  SqlAnd(SqlOr(SqlBetween(row.centroid_lat, params[1], params[2]),
               SqlIsNull(row.centroid_lat)),
         SqlOr(SqlBetween(row.centroid_lon, params[3], params[4]),
               SqlIsNull(row.centroid_lon)))

\* The rows FROM villages WHERE ... selects, in heap (insertion) order.
RECURSIVE SelectRows(_, _)
SelectRows(vs, params) ==
  IF vs = <<>> THEN <<>>
  ELSE (IF BoxWhere(Head(vs), params) = "T" THEN <<Head(vs)>> ELSE <<>>)
         \o SelectRows(Tail(vs), params)

\* ORDER BY name: every arrangement of the selected rows with the names
\* ascending.  The statement names no second sort key, so the store may
\* return rows of equal name in any order.
OrderByName(rows) ==
  LET n == Len(rows)
      perms == {f \in [1..n -> 1..n] : \A i, j \in 1..n : i # j => f[i] # f[j]}
      sorted == {f \in perms :
                   \A i \in 1..n : \A j \in 1..n :
                     i < j => rows[f[i]].name <= rows[f[j]].name}
  IN {[i \in 1..n |-> rows[f[i]]] : f \in sorted}

SqlLimit(rows, limit) ==
  SubSeq(rows, 1, IF limit < Len(rows) THEN limit ELSE Len(rows))

VillagesQueryColumns ==
  {"id", "gid", "name", "state", "district", "block", "properties",
   "boundary_geojson", "centroid_lat", "centroid_lon", "created_at"}

\* What the store answers to a statement on villages that names cols.
StoreError(tabs, cols) ==
  IF ~TableExists(tabs, "villages") THEN "undefined_table"
  ELSE IF ~(cols \subseteq tabs["villages"]) THEN "undefined_column"
       ELSE "none"

NoQuery == [status |-> 0, error |-> "none", bbox |-> <<>>, limit |-> 0,
            rows |-> <<>>, at |-> 0]

(***************************************************************************)
(* importVillages (scripts/import-villages.js).  An attribute value is     *)
(* Null when the attribute is absent, Empty when it is present but falsy   *)
(* (the empty string, 0), and a positive number otherwise.  uNAME, uSTATE,  *)
(* uDISTRICT and uBLOCK are the attributes NAME, STATE, DISTRICT, BLOCK.   *)
(***************************************************************************)
Empty == 0

Unknown == 9

ErrorBudget == 10

JsOr(a, b) == IF a # Null /\ a # Empty THEN a ELSE b

\* const villageData = { gid: properties.gid || null, name: ... }
villageData(properties) ==
  [gid |-> JsOr(properties.gid, Null),
   name |-> JsOr(JsOr(properties.name, properties.uNAME), Unknown),
   state |-> JsOr(JsOr(properties.state, properties.uSTATE), Null),
   district |-> JsOr(JsOr(properties.district, properties.uDISTRICT), Null),
   block |-> JsOr(JsOr(properties.block, properties.uBLOCK), Null)]

\* A variant of the existence check that requires the id and the name and
\* district to match together.
DedupeWhereAnd(row, data) ==
  SqlAnd(SqlEq(row.gid, data.gid),
         SqlAnd(SqlEq(row.name, data.name), SqlEq(row.district, data.district)))

\* WHERE gid = $1 OR (name = $2 AND district = $3)
DedupeWhere(row, data) ==
  SqlOr(SqlEq(row.gid, data.gid),
        SqlAnd(SqlEq(row.name, data.name), SqlEq(row.district, data.district)))

\* existingVillage.rows.length > 0
ExistingVillage(vs, data) ==
  \E i \in 1..Len(vs) : DedupeWhere(vs[i], data) = "T"

VillagesInsertColumns ==
  {"gid", "name", "state", "district", "block", "properties",
   "boundary_geojson"}

VillageRow(id, data, lat, lon) ==
  [id |-> id, gid |-> data.gid, name |-> data.name, state |-> data.state,
   district |-> data.district, block |-> data.block,
   centroid_lat |-> lat, centroid_lon |-> lon]

\* A variant of the insert that overwrites a stored row matching the record
\* (an upsert) instead of adding one.
InsertVillageUpsert(vs, row) ==
  IF \E i \in 1..Len(vs) : vs[i].name = row.name
  THEN [i \in 1..Len(vs) |->
          IF vs[i].name = row.name THEN [row EXCEPT !.id = vs[i].id] ELSE vs[i]]
  ELSE Append(vs, row)

\* A variant of the insert under a uniqueness rule on the external id: a
\* row whose id is already stored is not added.
InsertVillageUniqueGid(vs, row) ==
  IF \E i \in 1..Len(vs) : row.gid # Null /\ vs[i].gid = row.gid
  THEN vs ELSE Append(vs, row)

\* INSERT INTO villages ... : one new row, the stored rows untouched.
InsertVillage(vs, row) == Append(vs, row)

(***************************************************************************)
(* The row triggers of villages (createTriggers), BEFORE INSERT OR UPDATE. *)
(* A geometry is absent (NoGeom), a point <<x, y>> or a boundary made of   *)
(* one axis-parallel rectangle <<minx, miny, maxx, maxy>>; ST_Centroid of  *)
(* such a boundary is the middle of the rectangle and ST_Centroid of an    *)
(* absent geometry is absent.                                              *)
(***************************************************************************)
NoGeom == <<>>

ST_Centroid(boundary) ==
  IF boundary = NoGeom THEN NoGeom
  ELSE <<(boundary[1] + boundary[3]) \div 2, (boundary[2] + boundary[4]) \div 2>>

\* A variant of the native trigger function that keeps a centroid the
\* caller supplied and computes one only when none was supplied.
update_village_centroid_keep(new) ==
  IF new.centroid # NoGeom THEN new
  ELSE [new EXCEPT !.centroid = ST_Centroid(new.boundary)]

\* update_village_centroid(): NEW.centroid = ST_Centroid(NEW.boundary).
update_village_centroid(new) ==
  [new EXCEPT !.centroid = ST_Centroid(new.boundary)]

\* A variant of the fallback trigger function in which the announced
\* "simple centroid calculation" is carried out: it fills the two centroid
\* fields of a row that has none.
update_village_centroid_fill(new) ==
  [new EXCEPT !.centroid_lat = IF @ = Null THEN 0 ELSE @,
              !.centroid_lon = IF @ = Null THEN 0 ELSE @]

\* update_village_centroid_simple(): when boundary_geojson is present it
\* assigns NEW.updated_at only, a column the village rows of this model do
\* not carry; no centroid field is assigned.
update_village_centroid_simple(new) ==
  [f \in DOMAIN new |-> IF f = "updated_at" THEN new[f] + 1 ELSE new[f]]

\* The triggers on villages fire in the order of their names.  A trigger
\* function whose body names a column the table does not have raises an
\* error when it runs, and the statement is rejected.
FireVillageTriggers(trigs, cols, new) ==
  LET a == IF "trg_update_village_centroid" \in trigs
           THEN IF {"boundary", "centroid"} \subseteq cols
                THEN [ok |-> TRUE, row |-> update_village_centroid(new)]
                ELSE [ok |-> FALSE, row |-> new]
           ELSE [ok |-> TRUE, row |-> new]
  IN IF ~a.ok THEN a
     ELSE IF "trg_update_village_centroid_simple" \in trigs
          THEN IF "boundary_geojson" \in cols
               THEN [ok |-> TRUE, row |-> update_village_centroid_simple(a.row)]
               ELSE [ok |-> FALSE, row |-> a.row]
          ELSE a

\* A variant of the budget test that stops on reaching the threshold.
BudgetExceededAt(errors) == errors >= ErrorBudget

\* if (errors > 10) break
BudgetExceeded(errors) == errors > ErrorBudget

Importers == {1, 2}

IdleImport == [pc |-> "idle", pos |-> 0, imported |-> 0, skipped |-> 0,
               errors |-> 0, total |-> Null, before |-> <<>>,
               lastError |-> "none", summary |-> <<>>]

\* The loop is left: the Import Summary lines print the three counters
\* before the closing COUNT(*) is awaited.
ImportSummaryLines(r) ==
  IF r.pc = "summary"
  THEN [r EXCEPT !.summary = <<r.imported, r.skipped, r.errors>>]
  ELSE r

\* A variant of the catch block that rethrows: the failure of one record
\* reaches the outer catch of the script (exit 1).
ImportFailureRethrow(r, n, message) ==
  [r EXCEPT !.errors = r.errors + 1, !.lastError = message, !.pc = "failed"]

\* A variant of the catch block that logs the failure without counting it.
ImportFailureUncounted(r, n, message) ==
  ImportSummaryLines(
    [r EXCEPT !.lastError = message,
              !.pos = IF r.pos = n THEN r.pos ELSE r.pos + 1,
              !.pc = IF r.pos = n THEN "summary" ELSE "check"])

\* The catch block of the loop body: count the failure, then stop the loop
\* or go on with the next feature.
ImportFailure(r, n, message) ==
  ImportSummaryLines(
    [r EXCEPT !.errors = r.errors + 1,
              !.lastError = message,
              !.pos = IF BudgetExceeded(r.errors + 1) \/ r.pos = n
                      THEN r.pos ELSE r.pos + 1,
              !.pc = IF BudgetExceeded(r.errors + 1) \/ r.pos = n
                     THEN "summary" ELSE "check"])

\* continue / end of the loop body: the next feature, or the summary.
ImportNext(r, n) ==
  ImportSummaryLines(
    [r EXCEPT !.pos = IF r.pos = n THEN r.pos ELSE r.pos + 1,
              !.pc = IF r.pos = n THEN "summary" ELSE "check"])

(***************************************************************************)
(* State.  The store: avail (the extensions the store can install), exts,  *)
(* tables (columns per table, {} when the table does not exist), indexes,  *)
(* functions, triggers, villages (rows in insertion order), nextId.  The   *)
(* process holding the SchemaManager singleton: procId, postgisAvailable,  *)
(* schemaPc (the position inside initializeSchema), issued and failed (the *)
(* statements of the current call).  History: runs (one entry per          *)
(* finished initializeSchema call), probes (enableExtensions calls of the  *)
(* current process), faults (transient store failures injected so far).    *)
(* lastQuery is the last answer of GET /api/villages; dataset is the       *)
(* feature list of the import script and imp the state of each script run. *)
(***************************************************************************)
VARIABLES avail, exts, tables, indexes, functions, triggers, villages, nextId,
          procId, postgisAvailable, schemaPc, issued, failed,
          runs, probes, faults, lastQuery, dataset, imp

\* The dependent tables: claimants and micro_assets (rows with id, name,
\* village_id, updated_at), documents (id, claimant_id, filename) and users
\* (the usernames); serial holds the next value of each id sequence and now
\* is the clock of the store.  lastDelete is the answer to the last DELETE,
\* lastStats and lastHealth the last results of getDatabaseStats and
\* checkHealth, and listening tells whether app.listen has bound the port
\* in the current process.
VARIABLES claimants, micro_assets, documents, users, serial, now, lastDelete,
          lastStats, lastHealth, listening

\* lastWrite is the answer of the store to the last row written directly
\* (table, operation, row id, the values the caller supplied, accepted or
\* rejected).  dbInitialized is the flag of the serverless entry point
\* (api/index.js) and lastReply the last response it sent.
VARIABLES lastWrite, dbInitialized, lastReply

apiVars == <<lastWrite, dbInitialized, lastReply>>

NoWrite ==
  [table |-> "none", op |-> "none", id |-> 0, supplied |-> FALSE,
   values |-> <<>>, ok |-> FALSE]

NoReply ==
  [endpoint |-> "none", status |-> 0, body |-> "none", tested |-> FALSE,
   connected |-> FALSE, queried |-> FALSE]

relVars == <<claimants, micro_assets, documents, users, serial, now,
             lastDelete>>

reportVars == <<lastStats, lastHealth>>

extraVars == <<relVars, reportVars, listening, apiVars>>

storeVars == <<avail, exts, tables, indexes, functions, triggers>>

dataVars == <<villages, nextId>>

schemaVars == <<procId, postgisAvailable, schemaPc, issued, failed, runs,
                probes, faults>>

vars == <<avail, exts, tables, indexes, functions, triggers, villages, nextId,
          procId, postgisAvailable, schemaPc, issued, failed,
          runs, probes, faults, lastQuery, dataset, imp,
          claimants, micro_assets, documents, users, serial, now, lastDelete,
          lastStats, lastHealth, listening,
          lastWrite, dbInitialized, lastReply>>

Schema ==
  [exts |-> exts, tables |-> tables, indexes |-> indexes,
   functions |-> functions, triggers |-> triggers]

Range(seq) == {seq[i] : i \in 1..Len(seq)}

\* The transient failures a step may suffer: none, or one of the statements
\* it issues, while the fault budget lasts.
Downs(stmts) == {{}} \cup (IF faults < MaxFaults THEN {{x} : x \in stmts} ELSE {})

(***************************************************************************)
(* initializeSchema, one action per awaited step.                          *)
(***************************************************************************)
RunEntry(result, iss, fl, sch) ==
  [proc |-> procId, result |-> result, flag |-> postgisAvailable,
   issued |-> iss, failed |-> fl, schema |-> sch]

\* await this.enableExtensions(): entered on every call of initializeSchema.
EnableExtensions(down) ==
  /\ schemaPc \in {"idle", "done"}
  /\ Len(runs) < MaxRuns
  /\ LET r == EnableExtensionsResult(exts, avail, down)
     IN /\ down \subseteq Range(r.issued)
        /\ exts' = r.exts
        /\ postgisAvailable' = IF r.thrown THEN postgisAvailable ELSE r.flag
        /\ issued' = r.issued
        /\ failed' = r.failed
        /\ probes' = probes + 1
        /\ faults' = faults + Cardinality(down)
        /\ schemaPc' = IF r.thrown THEN "failed" ELSE "tables"
        /\ runs' = IF r.thrown
                   THEN Append(runs,
                          RunEntry("error", r.issued, r.failed,
                                   [Schema EXCEPT !.exts = r.exts]))
                   ELSE runs
  /\ UNCHANGED <<avail, tables, indexes, functions, triggers, dataVars,
                 procId, lastQuery, dataset, imp>>
  /\ UNCHANGED extraVars

\* await this.createTables(): a failing statement is rethrown by
\* initializeSchema.
CreateTables(down) ==
  /\ schemaPc = "tables"
  /\ LET r == CreateTablesResult(tables, postgisAvailable, down)
     IN /\ down \subseteq Range(r.issued)
        /\ tables' = r.tables
        /\ issued' = issued \o r.issued
        /\ failed' = failed \cup r.failed
        /\ faults' = faults + Cardinality(down)
        /\ schemaPc' = IF r.thrown THEN "failed" ELSE "indexes"
        /\ runs' = IF r.thrown
                   THEN Append(runs,
                          RunEntry("error", issued \o r.issued,
                                   failed \cup r.failed,
                                   [Schema EXCEPT !.tables = r.tables]))
                   ELSE runs
  /\ UNCHANGED <<avail, exts, indexes, functions, triggers, dataVars,
                 procId, postgisAvailable, probes, lastQuery, dataset, imp>>
  /\ UNCHANGED extraVars

\* await this.createIndexes(): never throws.
CreateIndexes(down) ==
  /\ schemaPc = "indexes"
  /\ LET r == CreateIndexesResult(indexes, tables, exts, postgisAvailable, down)
     IN /\ down \subseteq Range(r.issued)
        /\ indexes' = r.indexes
        /\ issued' = issued \o r.issued
        /\ failed' = failed \cup r.failed
        /\ faults' = faults + Cardinality(down)
        /\ schemaPc' = "triggers"
  /\ UNCHANGED <<avail, exts, tables, functions, triggers, dataVars,
                 procId, postgisAvailable, runs, probes, lastQuery, dataset,
                 imp>>
  /\ UNCHANGED extraVars

\* await this.createTriggers(), then return true; a failing statement is
\* rethrown by initializeSchema.
CreateTriggers(down) ==
  /\ schemaPc = "triggers"
  /\ LET r == CreateTriggersResult(triggers, functions, tables,
                                   postgisAvailable, down)
     IN /\ down \subseteq Range(r.issued)
        /\ triggers' = r.triggers
        /\ functions' = r.functions
        /\ issued' = issued \o r.issued
        /\ failed' = failed \cup r.failed
        /\ faults' = faults + Cardinality(down)
        /\ schemaPc' = IF r.thrown THEN "failed" ELSE "done"
        /\ runs' = Append(runs,
                     RunEntry(IF r.thrown THEN "error" ELSE "ok",
                              issued \o r.issued, failed \cup r.failed,
                              [Schema EXCEPT !.triggers = r.triggers,
                                             !.functions = r.functions]))
  /\ UNCHANGED <<avail, exts, tables, indexes, dataVars, procId,
                 postgisAvailable, probes, lastQuery, dataset, imp>>
  /\ UNCHANGED extraVars

\* A new process loads the SchemaManager module: a fresh singleton on the
\* same store (the setup script, then the server).
NewProcess ==
  /\ schemaPc \in {"done", "failed"}
  /\ procId < MaxProcs
  /\ procId' = procId + 1
  /\ postgisAvailable' = "undefined"
  /\ schemaPc' = "idle"
  /\ issued' = <<>>
  /\ failed' = {}
  /\ probes' = 0
  /\ UNCHANGED <<storeVars, dataVars, runs, faults, lastQuery, dataset, imp>>
  /\ listening' = FALSE
  /\ UNCHANGED <<relVars, reportVars, apiVars>>

(***************************************************************************)
(* GET /api/villages?bbox=..&limit=..                                      *)
(***************************************************************************)
RowIds(rows) == [i \in 1..Len(rows) |-> rows[i].id]

\* The answers the handler can give: 500 when the query fails, otherwise
\* 200 with the rows in one of the orders ORDER BY name allows.
VillagesReplies(bbox, limit, timeout) ==
  LET err == StoreError(tables, VillagesQueryColumns)
      params == BboxParams(bbox, limit)
  IN IF timeout \/ err # "none"
     THEN {[status |-> 500,
            error |-> IF err # "none" THEN err ELSE "timeout",
            bbox |-> bbox, limit |-> limit, rows |-> <<>>,
            at |-> Len(villages)]}
     ELSE {[status |-> 200, error |-> "none", bbox |-> bbox,
            limit |-> limit, rows |-> RowIds(SqlLimit(ordered, limit)),
            at |-> Len(villages)] :
             ordered \in OrderByName(SelectRows(villages, params))}

QueryVillages(bbox, limit, timeout) ==
  /\ lastQuery' \in VillagesReplies(bbox, limit, timeout)
  /\ UNCHANGED <<storeVars, dataVars, schemaVars, dataset, imp>>
  /\ UNCHANGED extraVars

(***************************************************************************)
(* generateVillages (scripts/generate-mock-data.js): one INSERT with a     *)
(* centroid supplied; a failure is logged and the loop goes on.            *)
(***************************************************************************)
MockInsertColumns ==
  {"gid", "name", "state", "district", "block", "properties", "centroid_lat",
   "centroid_lon", "boundary_geojson"}

MockInsertVillage(data, lat, lon, timeout) ==
  /\ LET t == FireVillageTriggers(triggers, tables["villages"],
                                   VillageRow(nextId, data, lat, lon))
     IN IF timeout \/ StoreError(tables, MockInsertColumns) # "none" \/ ~t.ok
        THEN UNCHANGED dataVars
        ELSE /\ villages' = InsertVillage(villages, t.row)
             /\ nextId' = nextId + 1
  /\ UNCHANGED <<storeVars, schemaVars, lastQuery, dataset, imp>>
  /\ UNCHANGED extraVars

(***************************************************************************)
(* importVillages: one action per awaited store round trip.                *)
(***************************************************************************)
\* Read the file, testConnection; a failure ends the script (exit 1).
ImportStart(p, timeout) ==
  /\ imp[p].pc = "idle"
  /\ imp' = [imp EXCEPT ![p] =
               IF timeout THEN [@ EXCEPT !.pc = "failed"]
               ELSE ImportSummaryLines(
                      [@ EXCEPT !.pc = IF Len(dataset) = 0 THEN "summary"
                                       ELSE "check",
                                !.pos = IF Len(dataset) = 0 THEN 0 ELSE 1,
                                !.before = villages])]
  /\ UNCHANGED <<storeVars, dataVars, schemaVars, lastQuery, dataset>>
  /\ UNCHANGED extraVars

\* Destructure the feature, build villageData, run the existence check.
ImportCheck(p, timeout) ==
  /\ imp[p].pc = "check"
  /\ LET r == imp[p]
         n == Len(dataset)
         feature == dataset[r.pos]
         err == StoreError(tables, {"id", "gid", "name", "district"})
     IN imp' = [imp EXCEPT ![p] =
          IF ~feature.hasProperties THEN ImportFailure(r, n, "type_error")
          ELSE IF timeout THEN ImportFailure(r, n, "timeout")
          ELSE IF err # "none" THEN ImportFailure(r, n, err)
          ELSE IF ExistingVillage(villages, villageData(feature.properties))
               THEN ImportNext([r EXCEPT !.skipped = r.skipped + 1], n)
               ELSE [r EXCEPT !.pc = "insert"]]
  /\ UNCHANGED <<storeVars, dataVars, schemaVars, lastQuery, dataset>>
  /\ UNCHANGED extraVars

\* INSERT INTO villages (gid, name, state, district, block, properties,
\* boundary_geojson): no centroid is supplied.
ImportInsert(p, timeout) ==
  /\ imp[p].pc = "insert"
  /\ LET r == imp[p]
         n == Len(dataset)
         data == villageData(dataset[r.pos].properties)
         err == StoreError(tables, VillagesInsertColumns)
         t == FireVillageTriggers(triggers, tables["villages"],
                                  VillageRow(nextId, data, Null, Null))
     IN IF timeout \/ err # "none" \/ ~t.ok
        THEN /\ imp' = [imp EXCEPT ![p] =
                          ImportFailure(r, n,
                            IF timeout THEN "timeout"
                            ELSE IF err # "none" THEN err ELSE "trigger_error")]
             /\ UNCHANGED dataVars
        ELSE /\ villages' = InsertVillage(villages, t.row)
             /\ nextId' = nextId + 1
             /\ imp' = [imp EXCEPT ![p] =
                          ImportNext([r EXCEPT !.imported = r.imported + 1], n)]
  /\ UNCHANGED <<storeVars, schemaVars, lastQuery, dataset>>
  /\ UNCHANGED extraVars

\* The summary: SELECT COUNT(*) FROM villages; a failure here reaches the
\* outer catch (exit 1).
ImportSummary(p, timeout) ==
  /\ imp[p].pc = "summary"
  /\ imp' = [imp EXCEPT ![p] =
               IF timeout \/ ~TableExists(tables, "villages")
               THEN [@ EXCEPT !.pc = "failed"]
               ELSE [@ EXCEPT !.pc = "done", !.total = Len(villages)]]
  /\ UNCHANGED <<storeVars, dataVars, schemaVars, lastQuery, dataset>>
  /\ UNCHANGED extraVars

(***************************************************************************)
(* The dependent tables.  village_id and claimant_id are declared          *)
(* REFERENCES ... ON DELETE SET NULL; claimants and micro_assets carry the *)
(* BEFORE UPDATE trigger that sets updated_at.                             *)
(***************************************************************************)
MaxRows == 1

MaxClock == 1

VillageIds == {villages[i].id : i \in 1..Len(villages)}

ClaimantIds == {c.id : c \in claimants}

\* A variant of the constraint check that accepts every value.
ForeignKeyUnchecked(ref, ids) == TRUE

\* REFERENCES t(id): the value is NULL or the id of a stored row.
ForeignKeyHolds(ref, ids) == ref = Null \/ ref \in ids

\* update_updated_at_column, fired BEFORE UPDATE on the tables that have
\* the trigger: NEW.updated_at = NOW().
UpdatedAtTrigger(table) == "trg_update_" \o table \o "_updated_at"

BeforeUpdate(row, table) ==
  IF UpdatedAtTrigger(table) \in triggers
  THEN [row EXCEPT !.updated_at = now]
  ELSE row

\* A variant of the referential action that deletes the referencing rows.
OnDeleteCascade(rows, field, id, table) == {r \in rows : r[field] # id}

\* ON DELETE SET NULL: the store updates every referencing row, setting the
\* reference to NULL; the update fires the row triggers of the table.
OnDeleteSetNull(rows, field, id, table) ==
  {IF r[field] = id THEN BeforeUpdate([r EXCEPT ![field] = Null], table)
   ELSE r : r \in rows}

\* The rows of a table that reference the row id.
Referencing(rows, field, id) == {r \in rows : r[field] = id}

NoDelete == [table |-> "none", id |-> 0, error |-> "none", cleared |-> 0]

InitDependents ==
  /\ claimants = {}
  /\ micro_assets = {}
  /\ documents = {}
  /\ users = {}
  /\ serial = [claimants |-> 1, micro_assets |-> 1, documents |-> 1]
  /\ now = 0
  /\ lastDelete = NoDelete

\* INSERT INTO claimants (name, claimant_type, tribal_group, village_id,
\* area_ha, status, properties): the id is drawn from the sequence, then
\* the foreign key is checked; a failure is logged and the loop goes on.
InsertClaimant(name, village_id) ==
  /\ TableExists(tables, "claimants")
  /\ serial.claimants <= MaxRows
  /\ serial' = [serial EXCEPT !.claimants = @ + 1]
  /\ claimants' =
       IF ForeignKeyHolds(village_id, VillageIds)
       THEN claimants \cup {[id |-> serial.claimants, name |-> name,
                             village_id |-> village_id, updated_at |-> now]}
       ELSE claimants
  /\ UNCHANGED <<micro_assets, documents, users, now, lastDelete>>
  /\ UNCHANGED <<storeVars, dataVars, schemaVars, lastQuery, dataset, imp,
                 reportVars, listening, apiVars>>

\* INSERT INTO micro_assets (name, asset_type, village_id, district,
\* area_ha, status, properties).
InsertMicroAsset(name, village_id) ==
  /\ TableExists(tables, "micro_assets")
  /\ serial.micro_assets <= MaxRows
  /\ serial' = [serial EXCEPT !.micro_assets = @ + 1]
  /\ micro_assets' =
       IF ForeignKeyHolds(village_id, VillageIds)
       THEN micro_assets \cup {[id |-> serial.micro_assets, name |-> name,
                                village_id |-> village_id,
                                updated_at |-> now]}
       ELSE micro_assets
  /\ UNCHANGED <<claimants, documents, users, now, lastDelete>>
  /\ UNCHANGED <<storeVars, dataVars, schemaVars, lastQuery, dataset, imp,
                 reportVars, listening, apiVars>>

\* INSERT INTO documents (claimant_id, filename, file_path, raw_text,
\* structured, ocr_confidence, uploaded_by).
InsertDocument(filename, claimant_id) ==
  /\ TableExists(tables, "documents")
  /\ serial.documents <= MaxRows
  /\ serial' = [serial EXCEPT !.documents = @ + 1]
  /\ documents' =
       IF ForeignKeyHolds(claimant_id, ClaimantIds)
       THEN documents \cup {[id |-> serial.documents,
                             claimant_id |-> claimant_id,
                             filename |-> filename]}
       ELSE documents
  /\ UNCHANGED <<claimants, micro_assets, users, now, lastDelete>>
  /\ UNCHANGED <<storeVars, dataVars, schemaVars, lastQuery, dataset, imp,
                 reportVars, listening, apiVars>>

\* INSERT INTO users (username, ...): username is UNIQUE.
InsertUser(username) ==
  /\ TableExists(tables, "users")
  /\ Cardinality(users) < MaxRows
  /\ users' = users \cup {username}
  /\ UNCHANGED <<claimants, micro_assets, documents, serial, now, lastDelete>>
  /\ UNCHANGED <<storeVars, dataVars, schemaVars, lastQuery, dataset, imp,
                 reportVars, listening, apiVars>>

\* DELETE FROM villages WHERE id = $1: the row goes, and the referential
\* action of claimants.village_id and micro_assets.village_id runs.
DeleteVillage(id) ==
  /\ id \in VillageIds
  /\ villages' = SelectSeq(villages, LAMBDA v : v.id # id)
  /\ claimants' = OnDeleteSetNull(claimants, "village_id", id, "claimants")
  /\ micro_assets' =
       OnDeleteSetNull(micro_assets, "village_id", id, "micro_assets")
  /\ lastDelete' =
       [table |-> "villages", id |-> id, error |-> "none",
        cleared |-> Cardinality(Referencing(claimants, "village_id", id))
                      + Cardinality(Referencing(micro_assets, "village_id", id))]
  /\ UNCHANGED <<documents, users, serial, now, nextId>>
  /\ UNCHANGED <<storeVars, schemaVars, lastQuery, dataset, imp, reportVars,
                 listening, apiVars>>

\* DELETE FROM claimants WHERE id = $1, with the referential action of
\* documents.claimant_id.
DeleteClaimant(id) ==
  /\ id \in ClaimantIds
  /\ claimants' = {c \in claimants : c.id # id}
  /\ documents' = OnDeleteSetNull(documents, "claimant_id", id, "documents")
  /\ lastDelete' =
       [table |-> "claimants", id |-> id, error |-> "none",
        cleared |-> Cardinality(Referencing(documents, "claimant_id", id))]
  /\ UNCHANGED <<micro_assets, users, serial, now>>
  /\ UNCHANGED <<storeVars, dataVars, schemaVars, lastQuery, dataset, imp,
                 reportVars, listening, apiVars>>

\* DELETE FROM micro_assets WHERE id = $1: nothing references the table.
DeleteMicroAsset(id) ==
  /\ \E a \in micro_assets : a.id = id
  /\ micro_assets' = {a \in micro_assets : a.id # id}
  /\ lastDelete' = [table |-> "micro_assets", id |-> id, error |-> "none",
                    cleared |-> 0]
  /\ UNCHANGED <<claimants, documents, users, serial, now>>
  /\ UNCHANGED <<storeVars, dataVars, schemaVars, lastQuery, dataset, imp,
                 reportVars, listening, apiVars>>

\* DELETE FROM documents WHERE id = $1: nothing references the table.
DeleteDocument(id) ==
  /\ \E d \in documents : d.id = id
  /\ documents' = {d \in documents : d.id # id}
  /\ lastDelete' = [table |-> "documents", id |-> id, error |-> "none",
                    cleared |-> 0]
  /\ UNCHANGED <<claimants, micro_assets, users, serial, now>>
  /\ UNCHANGED <<storeVars, dataVars, schemaVars, lastQuery, dataset, imp,
                 reportVars, listening, apiVars>>

\* Time passes on the clock of the store.
Tick ==
  /\ now < MaxClock
  /\ now' = now + 1
  /\ UNCHANGED <<claimants, micro_assets, documents, users, serial,
                 lastDelete>>
  /\ UNCHANGED <<storeVars, dataVars, schemaVars, lastQuery, dataset, imp,
                 reportVars, listening, apiVars>>

(***************************************************************************)
(* getDatabaseStats and checkHealth.  A value of the stats map is the      *)
(* marker 'Error' or a number; the count arrives as the decimal text of a  *)
(* bigint and goes through parseInt.                                       *)
(***************************************************************************)
StatsTables == <<"villages", "claimants", "micro_assets", "documents", "users">>

RowCount(t) ==
  CASE t = "villages" -> Len(villages)
    [] t = "claimants" -> Cardinality(claimants)
    [] t = "micro_assets" -> Cardinality(micro_assets)
    [] t = "documents" -> Cardinality(documents)
    [] t = "users" -> Cardinality(users)

RECURSIVE CountText(_)
CountText(n) ==
  IF n < 10 THEN <<n>> ELSE Append(CountText(n \div 10), n % 10)

RECURSIVE parseInt(_)
parseInt(text) ==
  IF Len(text) = 1 THEN text[1]
  ELSE parseInt(SubSeq(text, 1, Len(text) - 1)) * 10 + text[Len(text)]

ErrorMarker == [error |-> TRUE, count |-> Null]

StatCount(n) == [error |-> FALSE, count |-> n]

CountStmt(t) == "count:" \o t

CountStatements == {CountStmt(StatsTables[i]) : i \in 1..Len(StatsTables)}

\* A variant of the loop that gives up at the first failing count.
RECURSIVE StatsLoopAbort(_, _, _)
StatsLoopAbort(i, stats, down) ==
  IF i > Len(StatsTables) THEN stats
  ELSE LET t == StatsTables[i]
           ok == TableExists(tables, t) /\ CountStmt(t) \notin down
       IN IF ok
          THEN StatsLoopAbort(i + 1,
                 [x \in DOMAIN stats \cup {t} |->
                    IF x = t THEN StatCount(parseInt(CountText(RowCount(t))))
                    ELSE stats[x]],
                 down)
          ELSE [x \in DOMAIN stats \cup {t} |->
                  IF x = t THEN ErrorMarker ELSE stats[x]]

\* for (const table of tables) { try { stats[table] = parseInt(count) }
\*                               catch { stats[table] = 'Error' } }
RECURSIVE StatsLoop(_, _, _)
StatsLoop(i, stats, down) ==
  IF i > Len(StatsTables) THEN stats
  ELSE LET t == StatsTables[i]
           ok == TableExists(tables, t) /\ CountStmt(t) \notin down
       IN StatsLoop(i + 1,
            [x \in DOMAIN stats \cup {t} |->
               IF x = t
               THEN (IF ok THEN StatCount(parseInt(CountText(RowCount(t))))
                     ELSE ErrorMarker)
               ELSE stats[x]],
            down)

GetDatabaseStatsResult(down) == StatsLoop(1, <<>>, down)

NoStats == [called |-> FALSE, stats |-> <<>>, down |-> {}]

NoHealth == [called |-> FALSE, status |-> "none", error |-> "none",
             timestamp |-> Null, tables |-> <<>>, pingOk |-> TRUE,
             down |-> {}]

\* A variant of checkHealth that reports unhealthy when a count failed.
CheckHealthResultStrict(pingOk, stats) ==
  IF pingOk /\ \A t \in DOMAIN stats : ~stats[t].error
  THEN [status |-> "healthy", error |-> "none", timestamp |-> now,
        tables |-> stats]
  ELSE [status |-> "unhealthy", error |-> "timeout", timestamp |-> now,
        tables |-> <<>>]

\* try { SELECT 1; stats = getDatabaseStats(); return healthy }
\* catch { return unhealthy }
CheckHealthResult(pingOk, stats) ==
  IF pingOk
  THEN [status |-> "healthy", error |-> "none", timestamp |-> now,
        tables |-> stats]
  ELSE [status |-> "unhealthy", error |-> "timeout", timestamp |-> now,
        tables |-> <<>>]

GetDatabaseStats(down) ==
  /\ lastStats' = [called |-> TRUE, stats |-> GetDatabaseStatsResult(down),
                   down |-> down]
  /\ UNCHANGED <<storeVars, dataVars, schemaVars, lastQuery, dataset, imp,
                 relVars, lastHealth, listening, apiVars>>

CheckHealth(pingOk, down) ==
  /\ LET h == CheckHealthResult(pingOk, GetDatabaseStatsResult(down))
     IN lastHealth' = [called |-> TRUE, status |-> h.status,
                       error |-> h.error, timestamp |-> h.timestamp,
                       tables |-> h.tables, pingOk |-> pingOk,
                       down |-> IF pingOk THEN down ELSE {}]
  /\ UNCHANGED <<storeVars, dataVars, schemaVars, lastQuery, dataset, imp,
                 relVars, lastStats, listening, apiVars>>

(***************************************************************************)
(* server.js: initializeDatabase() is started without being awaited and    *)
(* app.listen follows in the same module body, so the port is bound while  *)
(* the initialization is still under way (or after it); a failure of the   *)
(* initialization ends the process (process.exit(1)), which is the state   *)
(* schemaPc = "failed".                                                    *)
(***************************************************************************)
Listen ==
  /\ ~listening
  /\ schemaPc # "failed"
  /\ listening' = TRUE
  /\ UNCHANGED <<storeVars, dataVars, schemaVars, lastQuery, dataset, imp,
                 relVars, reportVars, apiVars>>

(***************************************************************************)
(* Features of the boundary dataset.                                       *)
(***************************************************************************)
Feature(gid, name, uNAME, district, uDISTRICT) ==
  [hasProperties |-> TRUE,
   properties |-> [gid |-> gid, name |-> name, uNAME |-> uNAME,
                   state |-> 1, uSTATE |-> Null,
                   district |-> district, uDISTRICT |-> uDISTRICT,
                   block |-> Null, uBLOCK |-> 1]]

\* A feature without a properties member: destructuring it throws.
Malformed ==
  [hasProperties |-> FALSE,
   properties |-> [gid |-> Null, name |-> Null, uNAME |-> Null,
                   state |-> Null, uSTATE |-> Null,
                   district |-> Null, uDISTRICT |-> Null,
                   block |-> Null, uBLOCK |-> Null]]

FeatA == Feature(1, 1, Null, 1, Null)

FeatB == Feature(2, 1, Null, 1, Null)

FeatC == Feature(Null, 1, Null, Null, Null)

FeatD == Feature(1, 2, Null, Null, Null)

FeatE == Feature(Null, Null, 2, Null, 1)

FeatF == Feature(Empty, Null, Null, 1, Null)

(***************************************************************************)
(* The empty store and a fresh process.                                    *)
(***************************************************************************)
InitStoreEmpty ==
  /\ exts = {}
  /\ tables = NoTables
  /\ indexes = {}
  /\ functions = {}
  /\ triggers = {}
  /\ villages = <<>>
  /\ nextId = 1

InitProcess ==
  /\ procId = 1
  /\ postgisAvailable = "undefined"
  /\ schemaPc = "idle"
  /\ issued = <<>>
  /\ failed = {}
  /\ runs = <<>>
  /\ probes = 0
  /\ faults = 0

InitExtra ==
  /\ InitDependents
  /\ lastStats = NoStats
  /\ lastHealth = NoHealth
  /\ listening = FALSE
  /\ lastWrite = NoWrite
  /\ dbInitialized = FALSE
  /\ lastReply = NoReply

(***************************************************************************)
(* Provisioning: initializeSchema against an empty store, for every set of *)
(* installable extensions, called again in the same process or in a new    *)
(* one; any statement may suffer a transient failure.                      *)
(***************************************************************************)
InitSchema ==
  /\ avail \in SUBSET ExtensionNames
  /\ InitStoreEmpty
  /\ InitProcess
  /\ lastQuery = NoQuery
  /\ dataset = <<FeatA>>
  /\ imp = [p \in Importers |-> IdleImport]
  /\ InitExtra

NextSchema ==
  \/ \E down \in Downs(AllStatements) : EnableExtensions(down)
  \/ \E down \in Downs(AllStatements) : CreateTables(down)
  \/ \E down \in Downs(AllStatements) : CreateIndexes(down)
  \/ \E down \in Downs(AllStatements) : CreateTriggers(down)
  \/ NewProcess

SpecSchema == InitSchema /\ [][NextSchema]_vars

(***************************************************************************)
(* Serving: the same provisioning without transient failures; once a call  *)
(* of initializeSchema has returned, bounding-box requests arrive and the  *)
(* import script is started.                                               *)
(***************************************************************************)
SchemaBox == <<770000, 200000, 780000, 210000>>

NextServe ==
  \/ EnableExtensions({})
  \/ CreateTables({})
  \/ CreateIndexes({})
  \/ CreateTriggers({})
  \/ NewProcess
  \/ \E limit \in 0..1 :
       schemaPc = "done" /\ QueryVillages(SchemaBox, limit, FALSE)
  \/ schemaPc = "done" /\ ImportStart(1, FALSE)
  \/ ImportCheck(1, FALSE)
  \/ ImportInsert(1, FALSE)
  \/ ImportSummary(1, FALSE)

SpecServe == InitSchema /\ [][NextServe]_vars

(***************************************************************************)
(* The state initializeSchema leaves on an empty store when no statement   *)
(* suffers a transient failure, computed with the operators of its steps.  *)
(***************************************************************************)
Provisioned(av) ==
  LET e == EnableExtensionsResult({}, av, {})
      t == CreateTablesResult(NoTables, e.flag, {})
      x == CreateIndexesResult({}, t.tables, e.exts, e.flag, {})
      g == CreateTriggersResult({}, {}, t.tables, e.flag, {})
  IN [exts |-> e.exts, flag |-> e.flag, tables |-> t.tables,
      indexes |-> x.indexes, functions |-> g.functions,
      triggers |-> g.triggers,
      issued |-> ((e.issued \o t.issued) \o x.issued) \o g.issued,
      failed |-> ((e.failed \cup t.failed) \cup x.failed) \cup g.failed]

InitProvisioned(av) ==
  LET s == Provisioned(av)
  IN /\ avail = av
     /\ exts = s.exts
     /\ tables = s.tables
     /\ indexes = s.indexes
     /\ functions = s.functions
     /\ triggers = s.triggers
     /\ procId = 1
     /\ postgisAvailable = s.flag
     /\ schemaPc = "done"
     /\ issued = s.issued
     /\ failed = s.failed
     /\ runs = <<[proc |-> 1, result |-> "ok", flag |-> s.flag,
                  issued |-> s.issued, failed |-> s.failed,
                  schema |-> [exts |-> s.exts, tables |-> s.tables,
                              indexes |-> s.indexes,
                              functions |-> s.functions,
                              triggers |-> s.triggers]]>>
     /\ probes = 1
     /\ faults = 0

(***************************************************************************)
(* Bounding-box queries on a store provisioned in fallback mode: villages  *)
(* written by the mock generator (centroid supplied) and by the import (no *)
(* centroid), and rows a fallback store may already hold with one          *)
(* centroid field only.                                                    *)
(***************************************************************************)
MaxVillages == 2

MaxLimit == 3

Centroids == {<<202961, 858245>>, <<205000, 775000>>}

SeedRows ==
  {<<>>,
   <<[id |-> 1, gid |-> 8, name |-> 1, state |-> 1, district |-> 2,
      block |-> 1, centroid_lat |-> 205000, centroid_lon |-> Null]>>,
   <<[id |-> 1, gid |-> 8, name |-> 2, state |-> 1, district |-> 2,
      block |-> 1, centroid_lat |-> Null, centroid_lon |-> 858245]>>}

QueryBoxes ==
  {<<770000, 200000, 780000, 210000>>,
   <<850000, 200000, 860000, 210000>>,
   <<775000, 205000, 775000, 205000>>,
   <<780000, 210000, 770000, 200000>>}

MockData(name) ==
  [gid |-> 3, name |-> name, state |-> 1, district |-> 1, block |-> 1]

InitQuery ==
  /\ InitProvisioned({})
  /\ villages \in SeedRows
  /\ nextId = Len(villages) + 1
  /\ lastQuery = NoQuery
  /\ dataset = <<FeatC>>
  /\ imp = [p \in Importers |-> IdleImport]
  /\ InitExtra

\* The store is filled first and queried afterwards: every query runs on a
\* store the inserts can build, and no insert follows an answer.
NextQuery ==
  \/ \E bbox \in QueryBoxes, limit \in 0..MaxLimit :
       QueryVillages(bbox, limit, FALSE)
  \/ \E name \in {1, 2}, c \in Centroids :
       /\ lastQuery = NoQuery
       /\ Len(villages) < MaxVillages
       /\ MockInsertVillage(MockData(name), c[1], c[2], FALSE)
  \/ lastQuery = NoQuery /\ ImportStart(1, FALSE)
  \/ lastQuery = NoQuery /\ ImportCheck(1, FALSE)
  \/ lastQuery = NoQuery /\ ImportInsert(1, FALSE)
  \/ lastQuery = NoQuery /\ ImportSummary(1, FALSE)

SpecQuery == InitQuery /\ [][NextQuery]_vars

(***************************************************************************)
(* The import script run twice in sequence on a provisioned store (either  *)
(* mode), over every short dataset and over one long dataset; the store    *)
(* may fail any round trip.                                                *)
(***************************************************************************)
MaxShort == 2

LongLen == 12

FeatureKinds == {FeatA, FeatB, FeatC, FeatD, FeatE, FeatF}

ShortDatasets == UNION {[1..n -> FeatureKinds] : n \in 1..MaxShort}

LongDataset ==
  [i \in 1..LongLen |->
     IF i % 3 = 0 THEN Malformed ELSE IF i % 3 = 1 THEN FeatA ELSE FeatC]

InitIngest ==
  /\ \E av \in {{}, ExtensionNames} : InitProvisioned(av)
  /\ villages = <<>>
  /\ nextId = 1
  /\ lastQuery = NoQuery
  /\ dataset \in ShortDatasets \cup {LongDataset}
  /\ imp = [p \in Importers |-> IdleImport]
  /\ InitExtra

\* Run 2 starts when run 1 has ended.
NextIngest ==
  \/ \E timeout \in BOOLEAN : ImportStart(1, timeout)
  \/ \E timeout \in BOOLEAN :
       imp[1].pc \in {"done", "failed"} /\ ImportStart(2, timeout)
  \/ \E p \in Importers, timeout \in BOOLEAN : ImportCheck(p, timeout)
  \/ \E p \in Importers, timeout \in BOOLEAN : ImportInsert(p, timeout)
  \/ \E p \in Importers, timeout \in BOOLEAN : ImportSummary(p, timeout)

SpecIngest == InitIngest /\ [][NextIngest]_vars

(***************************************************************************)
(* C1.  Without transient store failures, for every set of installable     *)
(* extensions, a call of initializeSchema that follows another one returns *)
(* true, fails in no statement that did not already fail in the call       *)
(* before, and leaves the extensions, tables, indexes, functions and       *)
(* triggers exactly as that call left them.                                *)
(***************************************************************************)
C1_ProvisionIdempotent ==
  faults = 0 =>
    \A i \in 1..Len(runs) :
      /\ runs[i].result = "ok"
      /\ i > 1 => /\ runs[i].schema = runs[i - 1].schema
                  /\ runs[i].failed \subseteq runs[i - 1].failed

C1_Witness ==
  /\ faults = 0
  /\ Len(runs) >= 2
  /\ runs[2].result = "ok"
  /\ runs[2].failed # {}
  /\ Cardinality(runs[2].schema.triggers) = 3
  /\ "idx_villages_name" \in runs[2].schema.indexes

(***************************************************************************)
(* C2.  Once the probe of a process has set postgisAvailable, no later     *)
(* step of that process issues an extension-enable statement or assigns    *)
(* the flag.                                                               *)
(***************************************************************************)
C2_ProbedOncePerProcess ==
  [][(postgisAvailable # "undefined" /\ procId' = procId)
       => (probes' = probes /\ postgisAvailable' = postgisAvailable)]_vars

(***************************************************************************)
(* C3.  In native and in fallback mode alike, the bounding-box query and   *)
(* the insert of the import name only columns the provisioned villages     *)
(* table has: neither is ever answered "column does not exist".            *)
(***************************************************************************)
C3_ColumnsExistInBothModes ==
  /\ lastQuery.error # "undefined_column"
  /\ \A p \in Importers : imp[p].lastError # "undefined_column"

(***************************************************************************)
(* The villages the store held when the last query ran, and eligibility as *)
(* the contract words it: each axis is tested on its own, and an absent    *)
(* coordinate passes.                                                      *)
(***************************************************************************)
VillagesSeen == SubSeq(villages, 1, lastQuery.at)

InBox(v, bbox) ==
  /\ v.centroid_lat = Null
       \/ (bbox[2] <= v.centroid_lat /\ v.centroid_lat <= bbox[4])
  /\ v.centroid_lon = Null
       \/ (bbox[1] <= v.centroid_lon /\ v.centroid_lon <= bbox[3])

EligibleIds(bbox) ==
  {VillagesSeen[i].id : i \in {j \in 1..Len(VillagesSeen) :
                                 InBox(VillagesSeen[j], bbox)}}

NoCentroid(v) == v.centroid_lat = Null /\ v.centroid_lon = Null

C5_AlwaysReturned ==
  lastQuery.status = 200 =>
    \A i \in 1..Len(VillagesSeen) :
      NoCentroid(VillagesSeen[i]) => VillagesSeen[i].id \in Range(lastQuery.rows)

(***************************************************************************)
(* C5, amended.  A village stored without a centroid is in the result of   *)
(* a bounding-box query for every box, whenever the limit is not smaller   *)
(* than the number of eligible villages.                                   *)
(***************************************************************************)
C5_ReturnedUnlessTruncated ==
  lastQuery.status = 200 =>
    \A i \in 1..Len(VillagesSeen) :
      (NoCentroid(VillagesSeen[i])
         /\ lastQuery.limit >= Cardinality(EligibleIds(lastQuery.bbox)))
        => VillagesSeen[i].id \in Range(lastQuery.rows)

\* A box that holds no stored centroid, and a village without a centroid
\* returned next to none of the others.
C5_Witness ==
  /\ lastQuery.status = 200
  /\ lastQuery.bbox = <<780000, 210000, 770000, 200000>>
  /\ Len(VillagesSeen) >= 2
  /\ Len(lastQuery.rows) = 1
  /\ lastQuery.limit >= 1
  /\ \E i \in 1..Len(VillagesSeen) :
       /\ NoCentroid(VillagesSeen[i])
       /\ lastQuery.rows = <<VillagesSeen[i].id>>

(***************************************************************************)
(* C6.  The result of a bounding-box query is the first limit rows of the  *)
(* eligible villages ordered by name ascending, equal names in insertion   *)
(* order (ascending id).                                                   *)
(***************************************************************************)
RowOf(id) == CHOOSE v \in Range(VillagesSeen) : v.id = id

Before(a, b) == a.name < b.name \/ (a.name = b.name /\ a.id < b.id)

C6_NameThenInsertionOrder ==
  lastQuery.status = 200 =>
    LET rows == lastQuery.rows
        e == EligibleIds(lastQuery.bbox)
    IN /\ \A i, j \in 1..Len(rows) :
            i < j => Before(RowOf(rows[i]), RowOf(rows[j]))
       /\ \A id \in e \ Range(rows) :
            \A i \in 1..Len(rows) : Before(RowOf(rows[i]), RowOf(id))
       /\ Len(rows) = IF lastQuery.limit < Cardinality(e) THEN lastQuery.limit
                      ELSE Cardinality(e)

(***************************************************************************)
(* C7.  A record whose existence check succeeds is skipped, with no insert *)
(* issued, exactly when a stored village has its external id, or has both  *)
(* its name and its district; otherwise the insert is issued, and an       *)
(* insert that succeeds adds one village with the record's normalized      *)
(* fields.  (A step that counts a failure is the subject of C9.)           *)
(***************************************************************************)
SameVillage(v, data) ==
  \/ data.gid # Null /\ v.gid = data.gid
  \/ data.district # Null /\ v.name = data.name /\ v.district = data.district

C8_SecondRunImportsNothing ==
  (/\ imp[1].pc = "done" /\ imp[1].errors = 0
   /\ imp[2].pc = "done" /\ imp[2].errors = 0)
    => /\ imp[2].imported = 0
       /\ imp[2].skipped = Len(dataset)
       /\ imp[2].total = imp[1].total

(***************************************************************************)
(* C9.  A run never counts more than 11 failures; it leaves the loop on    *)
(* the 11th with imported + skipped + errors equal to the number of        *)
(* records taken up to that failure, and a run that ends with 10 failures  *)
(* or fewer has processed every record of the dataset.                     *)
(***************************************************************************)
C9_HaltOnEleventhFailure ==
  \A p \in Importers :
    LET r == imp[p]
    IN /\ r.errors <= ErrorBudget + 1
       /\ r.pc \in {"check", "insert"} =>
            /\ r.errors <= ErrorBudget
            /\ r.imported + r.skipped + r.errors = r.pos - 1
       /\ r.pc \in {"summary", "done"} =>
            /\ r.imported + r.skipped + r.errors = r.pos
            /\ r.errors <= ErrorBudget => r.pos = Len(dataset)

\* A run halted on its 11th failure with a record left unprocessed.
C9_Witness ==
  /\ imp[1].pc = "done"
  /\ imp[1].errors = ErrorBudget + 1
  /\ imp[1].pos < Len(dataset)
  /\ imp[1].imported + imp[1].skipped = imp[1].pos - (ErrorBudget + 1)

(***************************************************************************)
(* C10.  The villages stored when a run starts stay stored and unchanged;  *)
(* while the run is the one in progress the store holds exactly those plus *)
(* one village per imported record, also after a halt on the error budget, *)
(* and the total the run reports is the count before the run plus          *)
(* imported.                                                               *)
(***************************************************************************)
IsPrefix(a, b) == Len(a) <= Len(b) /\ SubSeq(b, 1, Len(a)) = a

LatestRun(p) == p = 2 \/ imp[2].pc = "idle"

C10_RunOnlyAdds ==
  \A p \in Importers :
    LET r == imp[p]
    IN r.pc \in {"check", "insert", "summary", "done"} =>
         /\ IsPrefix(r.before, villages)
         /\ LatestRun(p) => Len(villages) = Len(r.before) + r.imported
         /\ r.pc = "done" => r.total = Len(r.before) + r.imported

\* A second run that found villages, inserted more and halted on the error
\* budget.
C10_Witness ==
  /\ imp[2].pc = "done"
  /\ Len(imp[2].before) >= 1
  /\ imp[2].imported >= 1
  /\ imp[2].errors = ErrorBudget + 1
  /\ imp[2].total = Len(villages)

(***************************************************************************)
(* Two runs of the import script started independently over the same       *)
(* dataset: their store round trips interleave freely.                     *)
(***************************************************************************)
NextRace ==
  \/ \E p \in Importers, timeout \in BOOLEAN : ImportStart(p, timeout)
  \/ \E p \in Importers, timeout \in BOOLEAN : ImportCheck(p, timeout)
  \/ \E p \in Importers, timeout \in BOOLEAN : ImportInsert(p, timeout)
  \/ \E p \in Importers, timeout \in BOOLEAN : ImportSummary(p, timeout)

InitRace ==
  /\ InitIngest
  /\ dataset \in ShortDatasets

SpecRace == InitRace /\ [][NextRace]_vars

(***************************************************************************)
(* C11.  A step of a run that counts a per-record failure (of the          *)
(* existence check or of the insert) never ends the run in failure: it     *)
(* adds one to errors and writes nothing; the run goes on with the next    *)
(* record while errors <= 10 and records remain, and otherwise leaves the  *)
(* loop, and a run that has left the loop has printed its imported /       *)
(* skipped / errors summary.                                               *)
(***************************************************************************)
C11_FailureCountedNotRaised ==
  [][\A p \in Importers :
       LET r == imp[p]
           q == imp'[p]
       IN /\ (r.pc \in {"check", "insert"} /\ q.errors # r.errors) =>
               /\ q.errors = r.errors + 1
               /\ q.imported = r.imported /\ q.skipped = r.skipped
               /\ villages' = villages
               /\ q.pc \in {"check", "summary"}
               /\ (q.errors <= 10 /\ r.pos < Len(dataset)) =>
                    (q.pc = "check" /\ q.pos = r.pos + 1)
               /\ q.pc = "summary" =>
                    q.summary = <<q.imported, q.skipped, q.errors>>
          /\ (r.pc \in {"check", "insert"} /\ q # r) => q.pc # "failed"
          /\ q.pc = "done" => q.summary = <<q.imported, q.skipped, q.errors>>
    ]_vars

\* A run that met failures, went on to import and skip later records and
\* ended with its summary.
C11_Witness ==
  /\ dataset = LongDataset
  /\ imp[1].pc = "done"
  /\ imp[1].errors >= 4
  /\ imp[1].errors <= 10
  /\ imp[1].imported >= 1
  /\ imp[1].skipped >= 1
  /\ imp[1].summary = <<imp[1].imported, imp[1].skipped, imp[1].errors>>

(***************************************************************************)
(* C12.  imported + skipped + errors is the number of records the run has  *)
(* finished with: every step of a run adds at most one to one counter,     *)
(* and does so exactly when it finishes a record; imported goes up exactly *)
(* on the steps that add a village.                                        *)
(***************************************************************************)
Processed(r) ==
  IF r.pc \in {"check", "insert"} THEN r.pos - 1
  ELSE IF r.pc = "idle" THEN 0 ELSE r.pos

Counted(r) == r.imported + r.skipped + r.errors

C12_CountersPartitionRecords ==
  [][\A p \in Importers :
       LET r == imp[p]
           q == imp'[p]
       IN /\ r.pc \in {"check", "insert", "summary", "done"} =>
               Counted(r) = Processed(r)
          /\ q.pc \in {"check", "insert", "summary", "done"} =>
               Counted(q) = Processed(q)
          /\ q.imported - r.imported \in {0, 1}
          /\ q.skipped - r.skipped \in {0, 1}
          /\ q.errors - r.errors \in {0, 1}
          /\ Counted(q) - Counted(r) \in {0, 1}
          /\ q # r => q.imported - r.imported = Len(villages') - Len(villages)
    ]_vars

\* A finished run in which each of the three counters is positive.
C12_Witness ==
  /\ imp[1].pc = "done"
  /\ imp[1].imported >= 1
  /\ imp[1].skipped >= 1
  /\ imp[1].errors >= 1
  /\ imp[1].imported + imp[1].skipped + imp[1].errors = Len(dataset)
  /\ Len(villages) = imp[1].imported

(***************************************************************************)
(* C13.  The store enforces no uniqueness between the existence check and  *)
(* the insert: with two runs interleaved, every insert that is issued      *)
(* after a passed check adds a village, so the store holds one village per *)
(* imported record of either run; the witness is the interleaving in which *)
(* both runs pass the check for the same record before either inserts it,  *)
(* which leaves two villages with the same external id.                    *)
(***************************************************************************)
C13_EveryPassedCheckInserts ==
  Len(villages) = imp[1].imported + imp[2].imported

C13_Witness ==
  /\ dataset = <<FeatA>>
  /\ imp[1].pc = "done" /\ imp[1].imported = 1 /\ imp[1].errors = 0
  /\ imp[2].pc = "done" /\ imp[2].imported = 1 /\ imp[2].errors = 0
  /\ Len(villages) = 2
  /\ villages[1].gid = 1
  /\ villages[2].gid = 1

(***************************************************************************)
(* Rows of the five tables inserted and deleted in any order on a          *)
(* provisioned store, while the clock of the store advances.               *)
(***************************************************************************)
InitRel ==
  /\ \E av \in {{}, ExtensionNames} : InitProvisioned(av)
  /\ villages = <<>>
  /\ nextId = 1
  /\ lastQuery = NoQuery
  /\ dataset = <<FeatA>>
  /\ imp = [p \in Importers |-> IdleImport]
  /\ InitExtra

NextRel ==
  \/ nextId <= MaxVillages
       /\ MockInsertVillage(MockData(1), 205000, 775000, FALSE)
  \/ \E v \in {Null} \cup (1..MaxVillages) : InsertClaimant(1, v)
  \/ \E v \in {Null} \cup (1..MaxVillages) : InsertMicroAsset(1, v)
  \/ \E c \in {Null} \cup (1..MaxRows) : InsertDocument(1, c)
  \/ \E id \in 1..MaxVillages : DeleteVillage(id)
  \/ \E id \in 1..MaxRows : DeleteClaimant(id)
  \/ \E id \in 1..MaxRows : DeleteMicroAsset(id)
  \/ \E id \in 1..MaxRows : DeleteDocument(id)
  \/ Tick

SpecRel == InitRel /\ [][NextRel]_vars

Ids(rows) == {r.id : r \in rows}

ById(rows, id) == CHOOSE r \in rows : r.id = id

(***************************************************************************)
(* C14.  As claimed: a stored village can always be deleted; the delete    *)
(* removes that village only, removes no claimant and no micro asset, sets *)
(* village_id to absent in exactly the rows that referenced the village,   *)
(* and leaves every other field of those rows, and every other row,        *)
(* unchanged.                                                              *)
(***************************************************************************)
C14_DeleteVillageOnlyClears ==
  /\ [](\A id \in VillageIds : ENABLED DeleteVillage(id))
  /\ [][Len(villages') < Len(villages) =>
          LET gone == VillageIds \ {villages'[i].id : i \in 1..Len(villages')}
          IN /\ Cardinality(gone) = 1
             /\ lastDelete'.error = "none"
             /\ villages' = SelectSeq(villages, LAMBDA v : v.id \notin gone)
             /\ Ids(claimants') = Ids(claimants)
             /\ Ids(micro_assets') = Ids(micro_assets)
             /\ \A c \in claimants :
                  ById(claimants', c.id) =
                    IF c.village_id \in gone
                    THEN [c EXCEPT !.village_id = Null] ELSE c
             /\ \A a \in micro_assets :
                  ById(micro_assets', a.id) =
                    IF a.village_id \in gone
                    THEN [a EXCEPT !.village_id = Null] ELSE a
             /\ documents' = documents
             /\ users' = users]_vars

(***************************************************************************)
(* C14, amended.  The same, except that a row whose village_id is cleared  *)
(* also has its updated_at set to the time of the delete (the BEFORE       *)
(* UPDATE trigger of claimants and micro_assets fires on the update that   *)
(* clears the reference).                                                  *)
(***************************************************************************)
C14_DeleteVillageClearsAndStamps ==
  /\ [](\A id \in VillageIds : ENABLED DeleteVillage(id))
  /\ [][Len(villages') < Len(villages) =>
          LET gone == VillageIds \ {villages'[i].id : i \in 1..Len(villages')}
          IN /\ Cardinality(gone) = 1
             /\ lastDelete'.error = "none"
             /\ villages' = SelectSeq(villages, LAMBDA v : v.id \notin gone)
             /\ Ids(claimants') = Ids(claimants)
             /\ Ids(micro_assets') = Ids(micro_assets)
             /\ \A c \in claimants :
                  ById(claimants', c.id) =
                    IF c.village_id \in gone
                    THEN [c EXCEPT !.village_id = Null, !.updated_at = now]
                    ELSE c
             /\ \A a \in micro_assets :
                  ById(micro_assets', a.id) =
                    IF a.village_id \in gone
                    THEN [a EXCEPT !.village_id = Null, !.updated_at = now]
                    ELSE a
             /\ documents' = documents
             /\ users' = users]_vars

\* A village referenced by a claimant and by a micro asset was deleted
\* after the clock had advanced; both rows are still stored, without owner.
C14_Witness ==
  /\ lastDelete.table = "villages"
  /\ lastDelete.cleared = 2
  /\ now > 0
  /\ \E c \in claimants : c.village_id = Null /\ c.updated_at = now
  /\ \E a \in micro_assets : a.village_id = Null /\ a.updated_at = now

(***************************************************************************)
(* C15.  Every owner reference that is not absent (claimant to village,    *)
(* micro asset to village, document to claimant) is the id of a stored     *)
(* row; a delete of a claimant removes no document and changes documents   *)
(* only by clearing the references to that claimant, and a delete of a     *)
(* village changes no document.                                            *)
(***************************************************************************)
C15_WeakReferencesResolve ==
  /\ [](/\ \A c \in claimants :
             c.village_id = Null \/ c.village_id \in VillageIds
        /\ \A a \in micro_assets :
             a.village_id = Null \/ a.village_id \in VillageIds
        /\ \A d \in documents :
             d.claimant_id = Null \/ d.claimant_id \in ClaimantIds)
  /\ [][/\ Cardinality(claimants') < Cardinality(claimants) =>
             LET gone == Ids(claimants) \ Ids(claimants')
             IN /\ Ids(documents') = Ids(documents)
                /\ \A d \in documents :
                     ById(documents', d.id) =
                       IF d.claimant_id \in gone
                       THEN [d EXCEPT !.claimant_id = Null] ELSE d
        /\ Len(villages') < Len(villages) => documents' = documents]_vars

\* A claimant that a document referenced was deleted: the document is
\* stored, without owner; and a referenced village was deleted as well.
C15_Witness ==
  /\ lastDelete.table = "claimants"
  /\ lastDelete.cleared = 1
  /\ claimants = {}
  /\ \E d \in documents : d.claimant_id = Null
  /\ Len(villages) = 0
  /\ nextId > 1

(***************************************************************************)
(* Statistics and health on a store that a provisioning run left complete  *)
(* or stopped at a failing CREATE TABLE (the tables after it are missing); *)
(* rows are inserted first, the reports are asked for afterwards, and any  *)
(* count query, or the liveness query, may fail.                           *)
(***************************************************************************)
TableFaults == {{}} \cup {{TableStmt(t)} : t \in TableNames}

CountFaults ==
  {{}, CountStatements} \cup {{c} : c \in CountStatements}

InitHealth ==
  /\ \E av \in {{}, ExtensionNames} : \E down \in TableFaults :
       LET e == EnableExtensionsResult({}, av, {})
           t == CreateTablesResult(NoTables, e.flag, down)
       IN IF t.thrown
          THEN /\ avail = av
               /\ exts = e.exts
               /\ tables = t.tables
               /\ indexes = {}
               /\ functions = {}
               /\ triggers = {}
               /\ procId = 1
               /\ postgisAvailable = e.flag
               /\ schemaPc = "failed"
               /\ issued = e.issued \o t.issued
               /\ failed = e.failed \cup t.failed
               /\ runs = <<[proc |-> 1, result |-> "error", flag |-> e.flag,
                            issued |-> e.issued \o t.issued,
                            failed |-> e.failed \cup t.failed,
                            schema |-> [exts |-> e.exts, tables |-> t.tables,
                                        indexes |-> {}, functions |-> {},
                                        triggers |-> {}]]>>
               /\ probes = 1
               /\ faults = 1
          ELSE InitProvisioned(av)
  /\ villages = <<>>
  /\ nextId = 1
  /\ lastQuery = NoQuery
  /\ dataset = <<FeatA>>
  /\ imp = [p \in Importers |-> IdleImport]
  /\ InitExtra

NoReport == lastStats = NoStats /\ lastHealth = NoHealth

NextHealth ==
  \/ /\ NoReport
     /\ Len(villages) < MaxVillages
     /\ StoreError(tables, MockInsertColumns) = "none"
     /\ MockInsertVillage(MockData(1), 205000, 775000, FALSE)
  \/ NoReport /\ InsertClaimant(1, Null)
  \/ NoReport /\ InsertMicroAsset(1, Null)
  \/ NoReport /\ InsertDocument(1, Null)
  \/ NoReport /\ InsertUser(1)
  \/ NoReport /\ Tick
  \/ \E down \in CountFaults : GetDatabaseStats(down)
  \/ \E pingOk \in BOOLEAN, down \in CountFaults : CheckHealth(pingOk, down)

SpecHealth == InitHealth /\ [][NextHealth]_vars

(***************************************************************************)
(* C16.  The map getDatabaseStats returns has exactly the five tables as   *)
(* keys; the entry of a table is the error marker exactly when its count   *)
(* query failed (the table is missing, or the query was hit by a failure), *)
(* and is the number of rows of the table otherwise, whatever happened to  *)
(* the tables before it.                                                   *)
(***************************************************************************)
C16_StatsPerTable ==
  lastStats.called =>
    /\ DOMAIN lastStats.stats =
         {"villages", "claimants", "micro_assets", "documents", "users"}
    /\ \A t \in DOMAIN lastStats.stats :
         IF ~TableExists(tables, t) \/ CountStmt(t) \in lastStats.down
         THEN lastStats.stats[t] = ErrorMarker
         ELSE lastStats.stats[t] = [error |-> FALSE, count |-> RowCount(t)]

\* The count of claimants failed on a store that lacks the last two
\* tables: three markers, and the counts of villages and micro_assets.
C16_Witness ==
  /\ lastStats.called
  /\ lastStats.down = {"count:claimants"}
  /\ ~TableExists(tables, "documents")
  /\ Len(villages) = 2
  /\ lastStats.stats["villages"] = [error |-> FALSE, count |-> 2]
  /\ lastStats.stats["claimants"] = ErrorMarker
  /\ lastStats.stats["micro_assets"] = [error |-> FALSE, count |-> 1]
  /\ lastStats.stats["documents"] = ErrorMarker
  /\ lastStats.stats["users"] = ErrorMarker

(***************************************************************************)
(* C17.  checkHealth always returns a record: status healthy, a timestamp  *)
(* and the full stats map (count failures only as markers in it) exactly   *)
(* when the liveness query succeeded, and status unhealthy, the error      *)
(* message and a timestamp exactly when it failed.                         *)
(***************************************************************************)
C17_HealthFollowsLiveness ==
  lastHealth.called =>
    /\ lastHealth.status \in {"healthy", "unhealthy"}
    /\ lastHealth.timestamp = now
    /\ lastHealth.status = "healthy" <=> lastHealth.pingOk
    /\ lastHealth.pingOk =>
         /\ lastHealth.error = "none"
         /\ DOMAIN lastHealth.tables =
              {"villages", "claimants", "micro_assets", "documents", "users"}
         /\ \A t \in DOMAIN lastHealth.tables :
              lastHealth.tables[t].error
                <=> (~TableExists(tables, t) \/ CountStmt(t) \in lastHealth.down)
         /\ \A t \in DOMAIN lastHealth.tables :
              ~lastHealth.tables[t].error
                => lastHealth.tables[t].count = RowCount(t)
    /\ ~lastHealth.pingOk =>
         /\ lastHealth.error # "none"
         /\ lastHealth.tables = <<>>

\* Healthy, one tick after the start, although every count query failed
\* on a store that has all five tables.
C17_Witness ==
  /\ lastHealth.called
  /\ lastHealth.status = "healthy"
  /\ lastHealth.pingOk
  /\ lastHealth.timestamp = 1
  /\ \A t \in DOMAIN lastHealth.tables : lastHealth.tables[t].error
  /\ TableExists(tables, "users")

(***************************************************************************)
(* Startup of the server: the provisioning of SpecSchema, with the port    *)
(* bound at any moment of the life of the process.                         *)
(***************************************************************************)
NextStartup ==
  \/ \E down \in Downs(AllStatements) : EnableExtensions(down)
  \/ \E down \in Downs(AllStatements) : CreateTables(down)
  \/ \E down \in Downs(AllStatements) : CreateIndexes(down)
  \/ \E down \in Downs(AllStatements) : CreateTriggers(down)
  \/ NewProcess
  \/ Listen

SpecStartup == InitSchema /\ [][NextStartup]_vars

IsTableStmt(x) == \E t \in TableNames : x = TableStmt(t)

IsExtStmt(x) == \E e \in ExtensionNames : x = ExtStmt(e)

IndexNames ==
  {"idx_villages_boundary_gist", "idx_villages_centroid",
   "idx_claimants_geom_gist", "idx_micro_assets_geom_gist",
   "idx_villages_centroid_lat", "idx_villages_centroid_lon",
   "idx_villages_boundary_geojson", "idx_claimants_geometry_geojson",
   "idx_micro_assets_geometry_geojson", "idx_villages_district",
   "idx_claimants_village_id", "idx_claimants_type", "idx_claimants_status",
   "idx_micro_assets_village_id", "idx_micro_assets_type",
   "idx_documents_claimant_id", "idx_documents_filename",
   "idx_villages_name_trgm", "idx_villages_name"}

IsIndexStmt(x) == \E n \in IndexNames : x = "index:" \o n

(***************************************************************************)
(* C18.  Every call of the probe issues the four extension statements in   *)
(* the order pg_trgm, btree_gist, postgis, postgis_topology, whichever of  *)
(* them fail; no call of initializeSchema fails unless a table or trigger  *)
(* statement failed; and the flag is true exactly when the postgis         *)
(* statement of the call succeeded.                                        *)
(***************************************************************************)
C18_ProbeOrderAndFlag ==
  /\ schemaPc # "idle" =>
       /\ Len(issued) >= 4
       /\ SubSeq(issued, 1, 4) =
            <<"ext:pg_trgm", "ext:btree_gist", "ext:postgis",
              "ext:postgis_topology">>
       /\ (postgisAvailable = "true") <=> ("ext:postgis" \notin failed)
       /\ postgisAvailable \in {"true", "false"}
  /\ \A i \in 1..Len(runs) :
       runs[i].result = "error" =>
         \E x \in runs[i].failed : ~IsExtStmt(x) /\ ~IsIndexStmt(x)

\* Only the native spatial type could be enabled: three failures around
\* it, the flag is true and the call succeeded.
C18_Witness ==
  /\ schemaPc = "done"
  /\ postgisAvailable = "true"
  /\ {"ext:pg_trgm", "ext:btree_gist", "ext:postgis_topology"} \subseteq failed
  /\ "ext:postgis" \notin failed
  /\ runs[Len(runs)].result = "ok"

(***************************************************************************)
(* C19.  A call of initializeSchema in which a CREATE TABLE fails raises   *)
(* the error, its last statement is that CREATE TABLE (no later table, no  *)
(* index and no trigger statement is issued), and the process ends without *)
(* ever having bound its port.                                             *)
(***************************************************************************)
TableFailureIsFatal ==
  \A i \in 1..Len(runs) :
    (\E x \in runs[i].failed : IsTableStmt(x)) =>
      /\ runs[i].result = "error"
      /\ runs[i].issued[Len(runs[i].issued)] \in runs[i].failed
      /\ IsTableStmt(runs[i].issued[Len(runs[i].issued)])
      /\ \A k \in 1..Len(runs[i].issued) :
           IsExtStmt(runs[i].issued[k]) \/ IsTableStmt(runs[i].issued[k])

C19_TableFailureAbortsStartup ==
  /\ TableFailureIsFatal
  /\ (schemaPc = "failed" /\ \E x \in failed : IsTableStmt(x)) => ~listening

(***************************************************************************)
(* C20.  A call of createIndexes issues the text-similarity index, every   *)
(* index of the list of its mode and every common index, whichever of them *)
(* fail; when the text-similarity statement fails the plain index on name  *)
(* is issued as well; the trigger statements follow, and the call of       *)
(* initializeSchema fails only if a table or trigger statement failed.     *)
(***************************************************************************)
IndexesDone == schemaPc \in {"triggers", "done"}

ModeIndexNames ==
  IF postgisAvailable = "true"
  THEN {"idx_villages_boundary_gist", "idx_villages_centroid",
        "idx_claimants_geom_gist", "idx_micro_assets_geom_gist"}
  ELSE {"idx_villages_centroid_lat", "idx_villages_centroid_lon",
        "idx_villages_boundary_geojson", "idx_claimants_geometry_geojson",
        "idx_micro_assets_geometry_geojson"}

CommonIndexNames ==
  {"idx_villages_district", "idx_claimants_village_id", "idx_claimants_type",
   "idx_claimants_status", "idx_micro_assets_village_id",
   "idx_micro_assets_type", "idx_documents_claimant_id",
   "idx_documents_filename"}

C20_IndexFailureIsWarning ==
  /\ IndexesDone =>
       /\ \A n \in ModeIndexNames \cup CommonIndexNames
                     \cup {"idx_villages_name_trgm"} :
            ("index:" \o n) \in Range(issued)
       /\ ("index:idx_villages_name_trgm" \in failed)
            <=> ("index:idx_villages_name" \in Range(issued))
  /\ schemaPc = "done" =>
       /\ runs[Len(runs)].result = "ok"
       /\ Cardinality({k \in 1..Len(issued) :
                         ~IsExtStmt(issued[k]) /\ ~IsTableStmt(issued[k])
                           /\ ~IsIndexStmt(issued[k])}) = 5
  /\ \A i \in 1..Len(runs) :
       runs[i].result = "error" =>
         \E x \in runs[i].failed : ~IsExtStmt(x) /\ ~IsIndexStmt(x)

\* Neither the text-similarity index nor the plain index on name could be
\* created; the other indexes were, and the call succeeded with its
\* triggers in place.
C20_Witness ==
  /\ schemaPc = "done"
  /\ runs[Len(runs)].result = "ok"
  /\ {"index:idx_villages_name_trgm", "index:idx_villages_name"}
       \subseteq failed
  /\ "idx_villages_name" \notin indexes
  /\ "idx_villages_district" \in indexes
  /\ Cardinality(triggers) = 3

(***************************************************************************)
(* The server from its start: the provisioning of SpecStartup, and, as     *)
(* soon as the port is bound, bounding-box requests.  The route handlers   *)
(* of server.js consult no flag of the initialization: a request that      *)
(* arrives on the bound port runs its query at once.                       *)
(***************************************************************************)
NextBoot ==
  \/ \E down \in Downs(AllStatements) : EnableExtensions(down)
  \/ \E down \in Downs(AllStatements) : CreateTables(down)
  \/ \E down \in Downs(AllStatements) : CreateIndexes(down)
  \/ \E down \in Downs(AllStatements) : CreateTriggers(down)
  \/ NewProcess
  \/ Listen
  \/ \E limit \in 0..1 :
       /\ listening
       /\ schemaPc # "failed"
       /\ QueryVillages(SchemaBox, limit, FALSE)

SpecBoot == InitSchema /\ [][NextBoot]_vars

(***************************************************************************)
(* C21.  The server starts in the order probe, provisioning, ready: a      *)
(* request is answered, and its data query issued, only in a process whose *)
(* call of initializeSchema has returned successfully.                     *)
(***************************************************************************)
C21_NoRequestBeforeSchema ==
  [][lastQuery' # lastQuery => schemaPc = "done"]_vars

(***************************************************************************)
(* Villages written row by row on a provisioned store: a store one        *)
(* process provisioned in native or in fallback mode, or one a second      *)
(* process provisioned again with the other value of the flag (the tables  *)
(* keep the first layout, the triggers of the second mode are added).      *)
(* Clients insert and update villages in the columns of either layout, the *)
(* mock generator inserts and the import script runs.                      *)
(***************************************************************************)
MaxCentroidRows == 1

Boundaries == {NoGeom, <<0, 0, 2, 4>>, <<2, 2, 6, 4>>}

Points == {NoGeom, <<9, 9>>}

Unsupplied == <<Null, Null>>

NativeWriteColumns == {"id", "name", "boundary", "centroid"}

FallbackWriteColumns == {"id", "name", "centroid_lat", "centroid_lon"}

NativeVillageRow(id, name, boundary, centroid) ==
  [id |-> id, gid |-> Null, name |-> name, state |-> Null, district |-> Null,
   block |-> Null, boundary |-> boundary, centroid |-> centroid]

VillageWrite(op, id, supplied, values, ok) ==
  [table |-> "villages", op |-> op, id |-> id, supplied |-> supplied,
   values |-> values, ok |-> ok]

\* The stored rows with the row of that id replaced.
ReplaceRow(vs, row) ==
  [i \in 1..Len(vs) |-> IF vs[i].id = row.id THEN row ELSE vs[i]]

\* INSERT INTO villages (name, boundary, centroid) VALUES ($1, $2, $3)
InsertVillageNative(name, boundary, centroid) ==
  /\ schemaPc = "done"
  /\ Len(villages) < MaxCentroidRows
  /\ LET new == NativeVillageRow(nextId, name, boundary, centroid)
         t == FireVillageTriggers(triggers, tables["villages"], new)
         ok == StoreError(tables, NativeWriteColumns) = "none" /\ t.ok
     IN /\ villages' = IF ok THEN InsertVillage(villages, t.row) ELSE villages
        /\ nextId' = IF ok THEN nextId + 1 ELSE nextId
        /\ lastWrite' = VillageWrite("insert", nextId, centroid # NoGeom,
                                     <<boundary, centroid>>, ok)
  /\ UNCHANGED <<storeVars, schemaVars, lastQuery, dataset, imp, relVars,
                 reportVars, listening, dbInitialized, lastReply>>

\* UPDATE villages SET centroid = $1 WHERE id = $2, and with setBoundary
\* UPDATE villages SET boundary = $1, centroid = $2 WHERE id = $3
UpdateVillageNative(id, setBoundary, boundary, centroid) ==
  /\ schemaPc = "done"
  /\ \E i \in 1..Len(villages) : villages[i].id = id
  /\ LET ok0 == StoreError(tables, NativeWriteColumns) = "none"
         old == CHOOSE r \in Range(villages) : r.id = id
         new == [old EXCEPT !.boundary = IF setBoundary THEN boundary ELSE @,
                            !.centroid = centroid]
         t == FireVillageTriggers(triggers, tables["villages"], new)
         ok == ok0 /\ t.ok
     IN /\ villages' = IF ok THEN ReplaceRow(villages, t.row) ELSE villages
        /\ lastWrite' = VillageWrite("update", id, centroid # NoGeom,
                                     <<IF setBoundary THEN boundary ELSE NoGeom,
                                       centroid>>, ok)
  /\ UNCHANGED <<storeVars, schemaVars, nextId, lastQuery, dataset, imp,
                 relVars, reportVars, listening, dbInitialized, lastReply>>

\* INSERT INTO villages (name) VALUES ($1), and with a centroid
\* INSERT INTO villages (name, centroid_lat, centroid_lon) VALUES (..)
InsertVillageFallback(name, centroid) ==
  /\ schemaPc = "done"
  /\ Len(villages) < MaxCentroidRows
  /\ LET new == VillageRow(nextId,
                           [gid |-> Null, name |-> name, state |-> Null,
                            district |-> Null, block |-> Null],
                           centroid[1], centroid[2])
         t == FireVillageTriggers(triggers, tables["villages"], new)
         ok == StoreError(tables, FallbackWriteColumns) = "none" /\ t.ok
     IN /\ villages' = IF ok THEN InsertVillage(villages, t.row) ELSE villages
        /\ nextId' = IF ok THEN nextId + 1 ELSE nextId
        /\ lastWrite' = VillageWrite("insert", nextId, centroid # Unsupplied,
                                     centroid, ok)
  /\ UNCHANGED <<storeVars, schemaVars, lastQuery, dataset, imp, relVars,
                 reportVars, listening, dbInitialized, lastReply>>

\* UPDATE villages SET name = $1 WHERE id = $2, and with a centroid
\* UPDATE villages SET name = $1, centroid_lat = $2, centroid_lon = $3 ..
UpdateVillageFallback(id, name, centroid) ==
  /\ schemaPc = "done"
  /\ \E i \in 1..Len(villages) : villages[i].id = id
  /\ LET ok0 == StoreError(tables, FallbackWriteColumns) = "none"
         old == CHOOSE r \in Range(villages) : r.id = id
         new == IF centroid = Unsupplied
                THEN [old EXCEPT !.name = name]
                ELSE [old EXCEPT !.name = name,
                                 !.centroid_lat = centroid[1],
                                 !.centroid_lon = centroid[2]]
         t == FireVillageTriggers(triggers, tables["villages"], new)
         ok == ok0 /\ t.ok
     IN /\ villages' = IF ok THEN ReplaceRow(villages, t.row) ELSE villages
        /\ lastWrite' = VillageWrite("update", id, centroid # Unsupplied,
                                     centroid, ok)
  /\ UNCHANGED <<storeVars, schemaVars, nextId, lastQuery, dataset, imp,
                 relVars, reportVars, listening, dbInitialized, lastReply>>

\* The state a second process leaves when it calls initializeSchema on the
\* store s an earlier one provisioned, the statements of down failing.
ProvisionedOver(s, av, down) ==
  LET e == EnableExtensionsResult(s.exts, av, down)
      t == CreateTablesResult(s.tables, e.flag, {})
      x == CreateIndexesResult(s.indexes, t.tables, e.exts, e.flag, {})
      g == CreateTriggersResult(s.triggers, s.functions, t.tables, e.flag, {})
  IN [exts |-> e.exts, flag |-> e.flag, tables |-> t.tables,
      indexes |-> x.indexes, functions |-> g.functions,
      triggers |-> g.triggers,
      issued |-> ((e.issued \o t.issued) \o x.issued) \o g.issued,
      failed |-> ((e.failed \cup t.failed) \cup x.failed) \cup g.failed]

RunOf(proc, s) ==
  [proc |-> proc, result |-> "ok", flag |-> s.flag, issued |-> s.issued,
   failed |-> s.failed,
   schema |-> [exts |-> s.exts, tables |-> s.tables, indexes |-> s.indexes,
               functions |-> s.functions, triggers |-> s.triggers]]

\* Two processes in turn on a store that offers every extension; in one
\* of them the statement that enables the native spatial type suffers a
\* transient failure, so that its flag differs from the other's.
InitProvisionedTwice(first, second) ==
  LET a == ProvisionedOver([exts |-> {}, tables |-> NoTables, indexes |-> {},
                            functions |-> {}, triggers |-> {}],
                           ExtensionNames, first)
      b == ProvisionedOver(a, ExtensionNames, second)
  IN /\ avail = ExtensionNames
     /\ exts = b.exts
     /\ tables = b.tables
     /\ indexes = b.indexes
     /\ functions = b.functions
     /\ triggers = b.triggers
     /\ procId = 2
     /\ postgisAvailable = b.flag
     /\ schemaPc = "done"
     /\ issued = b.issued
     /\ failed = b.failed
     /\ runs = <<RunOf(1, a), RunOf(2, b)>>
     /\ probes = 1
     /\ faults = 1

InitCentroid ==
  /\ \/ \E av \in {{}, ExtensionNames} : InitProvisioned(av)
     \/ InitProvisionedTwice({}, {"ext:postgis"})
     \/ InitProvisionedTwice({"ext:postgis"}, {})
  /\ villages = <<>>
  /\ nextId = 1
  /\ lastQuery = NoQuery
  /\ dataset = <<FeatA>>
  /\ imp = [p \in Importers |-> IdleImport]
  /\ InitExtra

NextCentroid ==
  \/ \E b \in Boundaries, c \in Points : InsertVillageNative(1, b, c)
  \/ \E id \in 1..MaxCentroidRows, c \in Points :
       UpdateVillageNative(id, FALSE, NoGeom, c)
  \/ \E id \in 1..MaxCentroidRows, b \in Boundaries, c \in Points :
       UpdateVillageNative(id, TRUE, b, c)
  \/ \E c \in {Unsupplied, <<205000, 775000>>} : InsertVillageFallback(2, c)
  \/ \E id \in 1..MaxCentroidRows, c \in {Unsupplied, <<202961, 858245>>} :
       UpdateVillageFallback(id, 1, c)
  \/ /\ Len(villages) < MaxCentroidRows
     /\ MockInsertVillage(MockData(1), 205000, 775000, FALSE)
  \/ Len(villages) < MaxCentroidRows /\ ImportStart(1, FALSE)
  \/ ImportCheck(1, FALSE)
  \/ ImportInsert(1, FALSE)
  \/ ImportSummary(1, FALSE)

SpecCentroid == InitCentroid /\ [][NextCentroid]_vars

(***************************************************************************)
(* C22.  On a store with the native layout every stored village has the    *)
(* centroid computed from its stored boundary, whatever centroid the       *)
(* insert or update supplied, and a village without a boundary has no      *)
(* centroid.                                                               *)
(***************************************************************************)
C22_NativeCentroidFollowsBoundary ==
  \A i \in 1..Len(villages) :
    "centroid" \in DOMAIN villages[i] =>
      /\ villages[i].centroid = ST_Centroid(villages[i].boundary)
      /\ villages[i].boundary = NoGeom => villages[i].centroid = NoGeom
      /\ villages[i].boundary = <<0, 0, 2, 4>> => villages[i].centroid = <<1, 2>>
      /\ villages[i].boundary = <<2, 2, 6, 4>> => villages[i].centroid = <<4, 3>>

\* An accepted update in native mode that supplied the point <<9, 9>> with
\* a boundary whose centroid is <<4, 3>>: the stored centroid is <<4, 3>>.
C22_Witness ==
  /\ postgisAvailable = "true"
  /\ lastWrite.op = "update"
  /\ lastWrite.ok
  /\ lastWrite.values = << <<2, 2, 6, 4>>, <<9, 9>> >>
  /\ \E i \in 1..Len(villages) :
       /\ villages[i].id = lastWrite.id
       /\ villages[i].boundary = <<2, 2, 6, 4>>
       /\ villages[i].centroid = <<4, 3>>

(***************************************************************************)
(* C23.  On a store with the fallback layout the centroid fields of a      *)
(* stored village change only in an update that supplies them, and then to *)
(* the supplied values; a village inserted by the import, or by an insert  *)
(* that supplies no centroid, is stored with both centroid fields absent.  *)
(***************************************************************************)
CentroidFields(v) == <<v.centroid_lat, v.centroid_lon>>

C23_FallbackCentroidOnlyFromCaller ==
  [][/\ \A i \in 1..Len(villages) :
          ("centroid_lat" \in DOMAIN villages[i]
             /\ CentroidFields(villages'[i]) # CentroidFields(villages[i]))
            => /\ lastWrite'.op = "update"
               /\ lastWrite'.id = villages[i].id
               /\ lastWrite'.supplied
               /\ CentroidFields(villages'[i]) = lastWrite'.values
     /\ (Len(villages') > Len(villages)
           /\ "centroid_lat" \in DOMAIN villages'[Len(villages')])
          => ((imp' # imp \/ (lastWrite' # lastWrite /\ ~lastWrite'.supplied))
                => CentroidFields(villages'[Len(villages')]) = Unsupplied)
    ]_vars

\* An imported village, later updated without a centroid, still has none.
C23_Witness ==
  /\ postgisAvailable = "false"
  /\ imp[1].imported = 1
  /\ Len(villages) = 1
  /\ lastWrite.op = "update"
  /\ lastWrite.ok
  /\ ~lastWrite.supplied
  /\ lastWrite.id = villages[1].id
  /\ CentroidFields(villages[1]) = Unsupplied

(***************************************************************************)
(* The normalisation of one ingested record: the import runs on a store    *)
(* provisioned in fallback mode over a file of one feature whose ten       *)
(* attributes (the five canonical ones and their upper-cased variants) are *)
(* each absent, empty or set.                                              *)
(***************************************************************************)
LowerValues == {Null, Empty, 1}

UpperValues == {Null, 2}

NormalizeFeatures ==
  {[hasProperties |-> TRUE,
    properties |-> [gid |-> g, uGID |-> ug, name |-> n, uNAME |-> un,
                    state |-> s, uSTATE |-> us, district |-> d,
                    uDISTRICT |-> ud, block |-> b, uBLOCK |-> ub]] :
     g \in LowerValues, ug \in UpperValues, n \in LowerValues,
     un \in UpperValues, s \in LowerValues, us \in UpperValues,
     d \in LowerValues, ud \in UpperValues, b \in LowerValues,
     ub \in UpperValues}

InitNormalize ==
  /\ InitProvisioned({})
  /\ villages = <<>>
  /\ nextId = 1
  /\ lastQuery = NoQuery
  /\ dataset \in {<<f>> : f \in NormalizeFeatures}
  /\ imp = [p \in Importers |-> IdleImport]
  /\ InitExtra

NextNormalize ==
  \/ ImportStart(1, FALSE)
  \/ ImportCheck(1, FALSE)
  \/ ImportInsert(1, FALSE)
  \/ ImportSummary(1, FALSE)

SpecNormalize == InitNormalize /\ [][NextNormalize]_vars

(***************************************************************************)
(* C24.  Each of the five normalised fields of an ingested record is the   *)
(* canonical attribute when it has a value, otherwise the upper-cased      *)
(* variant when that has a value, otherwise absent (for name the           *)
(* placeholder 'Unknown').                                                 *)
(***************************************************************************)
FallbackChain(lower, upper, default) ==
  IF lower \notin {Null, Empty} THEN lower
  ELSE IF upper \notin {Null, Empty} THEN upper ELSE default

C24_FiveFieldsFallBack ==
  imp[1].imported = 1 =>
    LET p == dataset[1].properties
        v == villages[1]
    IN /\ v.gid = FallbackChain(p.gid, p.uGID, Null)
       /\ v.name = FallbackChain(p.name, p.uNAME, Unknown)
       /\ v.state = FallbackChain(p.state, p.uSTATE, Null)
       /\ v.district = FallbackChain(p.district, p.uDISTRICT, Null)
       /\ v.block = FallbackChain(p.block, p.uBLOCK, Null)

(***************************************************************************)
(* The column rules of the dependent tables (createClaimantsTable,         *)
(* createMicroAssetsTable, createDocumentsTable, createUsersTable; both    *)
(* layouts carry the same rules).  A text value is a string, NullText      *)
(* stands for the absent value and Omitted for a column the statement does *)
(* not name.  A number is <<v>> with v in units of 0.00001, absent is      *)
(* NoNum; a NUMERIC(p, 4) column stores it rounded to units of 0.0001 and  *)
(* rejects a value of more than p digits.                                  *)
(***************************************************************************)
MaxStored == 1

NullText == "NULL"

Omitted == "DEFAULT"

NoNum == <<>>

ClaimantTypes == {"IFR", "CR"}

ClaimantStatuses == {"pending", "recognized", "rejected"}

AssetTypes == {"water_body", "vegetation", "farmland", "infrastructure"}

UserRoles == {"admin", "user", "viewer"}

\* x IN (v1, .., vn): unknown for an absent x.
SqlInText(x, values) ==
  IF x = NullText THEN "U" ELSE IF x \in values THEN "T" ELSE "F"

\* A CHECK constraint rejects a row only when its condition is false.
CheckPasses(condition) == condition # "F"

\* The value a column takes: the supplied one, or its DEFAULT when the
\* statement does not name the column.
ColumnValue(supplied, default) ==
  IF supplied = Omitted THEN default ELSE supplied

\* Rounding to four decimals, half away from zero.
NumericRound(v) ==
  IF v >= 0 THEN (v + 5) \div 10 ELSE 0 - ((5 - v) \div 10)

RECURSIVE Pow10(_)
Pow10(n) == IF n = 0 THEN 1 ELSE 10 * Pow10(n - 1)

\* NUMERIC(precision, 4).  No number of this model reaches ten digits.
Numeric(x, precision) ==
  IF x = NoNum THEN [ok |-> TRUE, value |-> NoNum]
  ELSE LET r == NumericRound(x[1])
           abs == IF r < 0 THEN 0 - r ELSE r
       IN [ok |-> precision > 9 \/ abs < Pow10(precision), value |-> <<r>>]

\* claimants: claimant_type TEXT CHECK (..), status TEXT DEFAULT 'pending'
\* CHECK (..), area_ha NUMERIC(10,4).
ClaimantRow(id, claimant_type, status, area_ha, village_id) ==
  LET st == ColumnValue(status, "pending")
      area == Numeric(area_ha, 10)
  IN [ok |-> /\ CheckPasses(SqlInText(claimant_type, ClaimantTypes))
             /\ CheckPasses(SqlInText(st, ClaimantStatuses))
             /\ area.ok,
      row |-> [id |-> id, name |-> 1, village_id |-> village_id,
               updated_at |-> now, claimant_type |-> claimant_type,
               status |-> st, area_ha |-> area.value]]

\* micro_assets: asset_type TEXT CHECK (..), area_ha NUMERIC(10,4).
MicroAssetRow(id, asset_type, area_ha) ==
  LET area == Numeric(area_ha, 10)
  IN [ok |-> CheckPasses(SqlInText(asset_type, AssetTypes)) /\ area.ok,
      row |-> [id |-> id, name |-> 1, village_id |-> Null,
               updated_at |-> now, asset_type |-> asset_type,
               area_ha |-> area.value]]

\* documents: ocr_confidence NUMERIC(5,4).
DocumentRow(id, ocr_confidence) ==
  LET c == Numeric(ocr_confidence, 5)
  IN [ok |-> c.ok,
      row |-> [id |-> id, claimant_id |-> Null, filename |-> 1,
               ocr_confidence |-> c.value]]

\* users: username TEXT UNIQUE NOT NULL, role TEXT DEFAULT 'user' CHECK (..).
UserRow(username, role, stored) ==
  LET r == ColumnValue(role, "user")
  IN [ok |-> /\ CheckPasses(SqlInText(r, UserRoles))
             /\ \A u \in stored : u.username # username,
      row |-> [username |-> username, role |-> r]]

RowWrite(table, op, id, ok) ==
  [table |-> table, op |-> op, id |-> id, supplied |-> FALSE,
   values |-> <<>>, ok |-> ok]

StoredRows ==
  Cardinality(claimants) + Cardinality(micro_assets) + Cardinality(documents)
    + Cardinality(users)

\* INSERT INTO claimants (name, claimant_type, area_ha[, status]) ..
InsertClaimantRow(claimant_type, status, area_ha) ==
  /\ TableExists(tables, "claimants")
  /\ StoredRows < MaxStored
  /\ serial.claimants <= MaxStored
  /\ LET r == ClaimantRow(serial.claimants, claimant_type, status, area_ha, Null)
     IN /\ claimants' = IF r.ok THEN claimants \cup {r.row} ELSE claimants
        /\ lastWrite' = RowWrite("claimants", "insert", serial.claimants, r.ok)
  /\ serial' = [serial EXCEPT !.claimants = @ + 1]
  /\ UNCHANGED <<micro_assets, documents, users, now, lastDelete>>
  /\ UNCHANGED <<storeVars, dataVars, schemaVars, lastQuery, dataset, imp,
                 reportVars, listening, dbInitialized, lastReply>>

\* UPDATE claimants SET claimant_type = $1, status = $2, area_ha = $3
\* WHERE id = $4; the BEFORE UPDATE trigger stamps the row.
UpdateClaimantRow(id, claimant_type, status, area_ha) ==
  /\ \E c \in claimants : c.id = id
  /\ LET old == CHOOSE c \in claimants : c.id = id
         r == ClaimantRow(id, claimant_type, status, area_ha, old.village_id)
         new == BeforeUpdate(r.row, "claimants")
     IN /\ claimants' = IF r.ok THEN (claimants \ {old}) \cup {new}
                        ELSE claimants
        /\ lastWrite' = RowWrite("claimants", "update", id, r.ok)
  /\ UNCHANGED <<micro_assets, documents, users, serial, now, lastDelete>>
  /\ UNCHANGED <<storeVars, dataVars, schemaVars, lastQuery, dataset, imp,
                 reportVars, listening, dbInitialized, lastReply>>

\* POST /api/claims: name and claimant_type are required and the type must
\* be IFR or CR (answer 400); area_ha goes to the INSERT as received, the
\* status is not named.  The INSERT names geometry_geojson: on a native
\* layout it fails and the answer is 500.
PostClaim(claimant_type, area_ha) ==
  /\ StoredRows < MaxStored
  /\ serial.claimants <= MaxStored
  /\ LET valid == claimant_type # NullText /\ claimant_type \in {"IFR", "CR"}
         reaches == /\ valid
                    /\ TableExists(tables, "claimants")
                    /\ "geometry_geojson" \in tables["claimants"]
         r == ClaimantRow(serial.claimants, claimant_type, Omitted, area_ha, Null)
     IN /\ claimants' = IF reaches /\ r.ok THEN claimants \cup {r.row}
                        ELSE claimants
        /\ serial' = IF reaches THEN [serial EXCEPT !.claimants = @ + 1]
                     ELSE serial
        /\ lastReply' = [endpoint |-> "claims",
                         status |-> IF ~valid THEN 400
                                    ELSE IF reaches /\ r.ok THEN 200 ELSE 500,
                         body |-> "claim", tested |-> FALSE,
                         connected |-> FALSE, queried |-> reaches]
  /\ UNCHANGED <<micro_assets, documents, users, now, lastDelete>>
  /\ UNCHANGED <<storeVars, dataVars, schemaVars, lastQuery, dataset, imp,
                 reportVars, listening, lastWrite, dbInitialized>>

\* INSERT INTO micro_assets (name, asset_type, area_ha) ..
InsertMicroAssetRow(asset_type, area_ha) ==
  /\ TableExists(tables, "micro_assets")
  /\ StoredRows < MaxStored
  /\ serial.micro_assets <= MaxStored
  /\ LET r == MicroAssetRow(serial.micro_assets, asset_type, area_ha)
     IN /\ micro_assets' = IF r.ok THEN micro_assets \cup {r.row}
                           ELSE micro_assets
        /\ lastWrite' = RowWrite("micro_assets", "insert",
                                 serial.micro_assets, r.ok)
  /\ serial' = [serial EXCEPT !.micro_assets = @ + 1]
  /\ UNCHANGED <<claimants, documents, users, now, lastDelete>>
  /\ UNCHANGED <<storeVars, dataVars, schemaVars, lastQuery, dataset, imp,
                 reportVars, listening, dbInitialized, lastReply>>

\* INSERT INTO documents (filename, ocr_confidence) ..
InsertDocumentRow(ocr_confidence) ==
  /\ TableExists(tables, "documents")
  /\ StoredRows < MaxStored
  /\ serial.documents <= MaxStored
  /\ LET r == DocumentRow(serial.documents, ocr_confidence)
     IN /\ documents' = IF r.ok THEN documents \cup {r.row} ELSE documents
        /\ lastWrite' = RowWrite("documents", "insert", serial.documents, r.ok)
  /\ serial' = [serial EXCEPT !.documents = @ + 1]
  /\ UNCHANGED <<claimants, micro_assets, users, now, lastDelete>>
  /\ UNCHANGED <<storeVars, dataVars, schemaVars, lastQuery, dataset, imp,
                 reportVars, listening, dbInitialized, lastReply>>

\* INSERT INTO users (username[, role]) ..
InsertUserRow(username, role) ==
  /\ TableExists(tables, "users")
  /\ StoredRows < MaxStored
  /\ LET r == UserRow(username, role, users)
     IN /\ users' = IF r.ok THEN users \cup {r.row} ELSE users
        /\ lastWrite' = RowWrite("users", "insert", username, r.ok)
  /\ UNCHANGED <<claimants, micro_assets, documents, serial, now, lastDelete>>
  /\ UNCHANGED <<storeVars, dataVars, schemaVars, lastQuery, dataset, imp,
                 reportVars, listening, dbInitialized, lastReply>>

TypeInputs == {NullText, "IFR", "XX"}

StatusInputs == {Omitted, NullText, "approved"}

AreaInputs == {<<0 - 100000>>, <<250004>>}

AssetTypeInputs == {NullText, "farmland", "forest"}

ConfidenceInputs ==
  {NoNum, <<0 - 50000>>, <<98765>>, <<150000>>, <<1000000>>}

RoleInputs == {Omitted, NullText, "admin", "root"}

InitConstraints ==
  /\ \E av \in {{}, ExtensionNames} : InitProvisioned(av)
  /\ villages = <<>>
  /\ nextId = 1
  /\ lastQuery = NoQuery
  /\ dataset = <<FeatA>>
  /\ imp = [p \in Importers |-> IdleImport]
  /\ InitExtra

NextConstraints ==
  \/ \E t \in TypeInputs, st \in StatusInputs, a \in AreaInputs :
       InsertClaimantRow(t, st, a)
  \/ \E id \in 1..MaxStored, t \in TypeInputs, st \in StatusInputs,
        a \in AreaInputs : UpdateClaimantRow(id, t, st, a)
  \/ \E t \in TypeInputs, a \in AreaInputs : PostClaim(t, a)
  \/ \E t \in AssetTypeInputs, a \in AreaInputs : InsertMicroAssetRow(t, a)
  \/ \E c \in ConfidenceInputs : InsertDocumentRow(c)
  \/ \E r \in RoleInputs : InsertUserRow(1, r)

SpecConstraints == InitConstraints /\ [][NextConstraints]_vars

(***************************************************************************)
(* C25.  Every stored claimant has one of the two claimant types and one   *)
(* of the three statuses, every stored micro asset one of the four asset   *)
(* types and every stored user one of the three roles.                     *)
(***************************************************************************)
C25_EnumeratedColumnsHold ==
  /\ \A c \in claimants :
       c.claimant_type \in ClaimantTypes /\ c.status \in ClaimantStatuses
  /\ \A a \in micro_assets : a.asset_type \in AssetTypes
  /\ \A u \in users : u.role \in UserRoles

(***************************************************************************)
(* C26.  Every stored claimant and micro asset area is non-negative and    *)
(* every stored document confidence lies between 0 and 1 (an absent value  *)
(* is let through).                                                        *)
(***************************************************************************)
C26_AreasAndConfidenceInRange ==
  /\ \A c \in claimants : c.area_ha # NoNum => c.area_ha[1] >= 0
  /\ \A a \in micro_assets : a.area_ha # NoNum => a.area_ha[1] >= 0
  /\ \A d \in documents :
       d.ocr_confidence # NoNum =>
         d.ocr_confidence[1] >= 0 /\ d.ocr_confidence[1] <= 10000

(***************************************************************************)
(* The serverless entry point (api/index.js).  Every handler first calls   *)
(* initializeDatabase, which tests the connection unless the flag          *)
(* dbInitialized is set; up tells whether the store can be reached while   *)
(* the request is handled.                                                 *)
(***************************************************************************)
\* A variant of initializeDatabase that sets the flag before the test.
initializeDatabaseEager(flag, up) ==
  [status |-> flag \/ up, flag |-> TRUE, tested |-> ~flag]

\* if (dbInitialized) return true;
\* try { await testConnection(); dbInitialized = true; return true }
\* catch { return false }
initializeDatabase(flag, up) ==
  IF flag THEN [status |-> TRUE, flag |-> TRUE, tested |-> FALSE]
  ELSE [status |-> up, flag |-> up, tested |-> TRUE]

Reply(endpoint, status, body, init, up, queried) ==
  [endpoint |-> endpoint, status |-> status, body |-> body,
   tested |-> init.tested, connected |-> init.tested /\ up,
   queried |-> queried]

\* GET /api/health
ApiHealth(up, down) ==
  /\ LET init == initializeDatabase(dbInitialized, up)
         h == CheckHealthResult(up, GetDatabaseStatsResult(down))
     IN /\ dbInitialized' = init.flag
        /\ IF init.status
           THEN /\ lastHealth' = [called |-> TRUE, status |-> h.status,
                                  error |-> h.error, timestamp |-> h.timestamp,
                                  tables |-> h.tables, pingOk |-> up,
                                  down |-> IF up THEN down ELSE {}]
                /\ lastReply' = Reply("health", 200, h.status, init, up, TRUE)
           ELSE /\ lastHealth' = lastHealth
                /\ lastReply' = Reply("health", 503, "unhealthy", init, up, FALSE)
  /\ UNCHANGED <<storeVars, dataVars, schemaVars, lastQuery, dataset, imp,
                 relVars, lastStats, listening, lastWrite>>

\* GET /api/stats
ApiStats(up, down) ==
  /\ LET init == initializeDatabase(dbInitialized, up)
     IN /\ dbInitialized' = init.flag
        /\ IF init.status
           THEN /\ lastStats' = [called |-> TRUE,
                                 stats |-> GetDatabaseStatsResult(
                                             IF up THEN down ELSE CountStatements),
                                 down |-> IF up THEN down ELSE CountStatements]
                /\ lastReply' = Reply("stats", 200, "tables", init, up, TRUE)
           ELSE /\ lastStats' = lastStats
                /\ lastReply' = Reply("stats", 503, "Database not available",
                                      init, up, FALSE)
  /\ UNCHANGED <<storeVars, dataVars, schemaVars, lastQuery, dataset, imp,
                 relVars, lastHealth, listening, lastWrite>>

\* GET /api/villages?bbox=..&limit=..
ApiVillages(up, bbox, limit) ==
  /\ LET init == initializeDatabase(dbInitialized, up)
     IN /\ dbInitialized' = init.flag
        /\ IF init.status
           THEN \E answer \in VillagesReplies(bbox, limit, ~up) :
                  /\ lastQuery' = answer
                  /\ lastReply' = Reply("villages", answer.status,
                                        IF answer.status = 200
                                        THEN "FeatureCollection"
                                        ELSE "server error", init, up, TRUE)
           ELSE /\ lastQuery' = lastQuery
                /\ lastReply' = Reply("villages", 503, "Database not available",
                                      init, up, FALSE)
  /\ UNCHANGED <<storeVars, dataVars, schemaVars, dataset, imp, relVars,
                 reportVars, listening, lastWrite>>

InitServerless ==
  /\ \E av \in {{}, ExtensionNames} : InitProvisioned(av)
  /\ villages = <<>>
  /\ nextId = 1
  /\ lastQuery = NoQuery
  /\ dataset = <<FeatA>>
  /\ imp = [p \in Importers |-> IdleImport]
  /\ InitExtra

NextServerless ==
  \/ \E up \in BOOLEAN, down \in CountFaults : ApiHealth(up, down)
  \/ \E up \in BOOLEAN, down \in CountFaults : ApiStats(up, down)
  \/ \E up \in BOOLEAN, limit \in 0..1 : ApiVillages(up, SchemaBox, limit)

SpecServerless == InitServerless /\ [][NextServerless]_vars

(***************************************************************************)
(* C27.  The flag dbInitialized is set only by a request whose connection  *)
(* test succeeded and is never cleared.  As long as it is not set, every   *)
(* request has tested the connection and failed: the data endpoints        *)
(* answered 503 and no data query was issued, and the health endpoint      *)
(* answered 503 with an unhealthy record.                                  *)
(***************************************************************************)
Unavailable ==
  /\ lastReply.status = 503
  /\ lastReply.tested
  /\ ~lastReply.connected
  /\ ~lastReply.queried
  /\ lastReply.endpoint = "health" => lastReply.body = "unhealthy"
  /\ lastReply.endpoint # "health" => lastReply.body = "Database not available"

C27_FlagFollowsConnectionTest ==
  /\ [](~dbInitialized =>
          /\ lastReply # NoReply => Unavailable
          /\ lastQuery = NoQuery
          /\ lastStats = NoStats
          /\ lastHealth = NoHealth)
  /\ [][/\ dbInitialized => dbInitialized'
        /\ (~dbInitialized /\ dbInitialized')
             => lastReply'.tested /\ lastReply'.connected
        /\ (dbInitialized /\ lastReply' # lastReply) => ~lastReply'.tested
       ]_vars

\* The bounding-box endpoint has answered 503 after a failed test.
C27_Witness ==
  /\ ~dbInitialized
  /\ lastReply.endpoint = "villages"
  /\ lastReply.status = 503
  /\ lastReply.tested
  /\ lastQuery = NoQuery


====
